---- MODULE Spec2Model ----
(***************************************************************************)
(* Position ledger (contract BTCDPerps), its oracle input and the keepers  *)
(* that liquidate through it.                                              *)
(*                                                                         *)
(* The ledger is a Solidity ^0.8.24 contract: arithmetic on uint256 is     *)
(* checked, so a subtraction below zero raises Panic(0x11) and the whole   *)
(* call reverts; a revert restores every storage write and every transfer  *)
(* of the call.  Calls execute one at a time (one action per call).        *)
(* Position.lastUpdate (block.timestamp, written by open and close and     *)
(* read by nothing) is not part of this state.  The events the ledger      *)
(* emits are kept in log by the specification that replays them           *)
(* (EventSpec); the other specifications of the ledger leave log alone.    *)
(* Amounts stay far below 2^255, so no product or cast overflows here.     *)
(*                                                                         *)
(* Beside the ledger stand the programs around it, each with its own       *)
(* variables and specifications: the keeper's log scan and main loop with  *)
(* getWithRetry, the candle builder and the chart with its live updates,   *)
(* the local/away, CoinGecko and random-walk publishers, the ingest and    *)
(* events handlers over the tick store, and the lab's vote handler.        *)
(***************************************************************************)
EXTENDS Integers, FiniteSets, Sequences, TLC

\* ---------------------------------------------------------------- bounds
\* values sent to ingest, 1..MaxMember, and their times, 0..MaxStamp
MaxMember == 4
MaxStamp == 2
\* BTC dominance as CoinGecko gives it, 1..MaxPct, and the clock 1..MaxNow
MaxPct == 4
MaxNow == 4
\* goals of the home side of the live football fixture (the away side has
\* 0..1) and points of either side of the live basketball game
MaxGoals == 3
MaxPoints == 1
\* pushPrice calls of the aggregator that throw after the index has moved
MaxFaults == 1
\* answers of the Random oracle
MaxRandom == 1002
MaxPrice == 2
MaxBalance == 20
\* events kept in log
MaxLog == 4
\* ticks in the store, their timestamps 0..MaxTime and values 1..MaxValue
MaxTicks == 3
MaxTime == 4
MaxValue == 3

\* ------------------------------------------------------- program constants
MAX_LEVERAGE == 150
BPS == 10000
\* keepers-daemon: blocks per log query (SCAN_CHUNK of the environment)
SCAN_CHUNK == 2
\* keepers-daemon: transactions per loop (MAX_TX_PER_LOOP of the environment)
MAX_TX_PER_LOOP == 2
\* normalizeContinuity: the 1e-9 below which an open is left as it is; tick
\* values and candle prices are counted in units of 1e-9
EPS == 1

\* localaway-daemon: the index the aggregator starts from when the oracle gives
\* none (10000); the index is counted in hundredths
START_INDEX == 1000000
\* localaway-daemon: Math.max(1, ...), in hundredths
FLOOR_INDEX == 100
\* keepers-daemon: attempts of getWithRetry
MAX_ATTEMPTS == 5
\* random-daemon: MAX_BPS when the environment sets none, and the basis
\* points of a whole
MAX_BPS == 10
STEP_DEN == 10000
\* localaway-daemon: 0.001 of the index per football goal
FOOTBALL_DEN == 1000
\* localaway-daemon: 0.00001 of the index per basketball point
BASKET_DEN == 100000
\* localaway-daemon: INTERVAL_MS and MAX_INTERVAL_MS of the environment
INTERVAL_MS == 4
MAX_INTERVAL_MS == 20

\* CoinGecko publishers: MIN_CHANGE and FORCE_MAX_AGE_SEC of the environment
MIN_CHANGE == 2
FORCE_MAX_AGE_SEC == 2

\* ingest: the tick series is trimmed when it holds more than 11000 ticks, to
\* its 10000 newest; the two sizes are scaled to 3 and 2
TRIM_ABOVE == 3
TRIM_TO == 2
\* ingest: the event list keeps its 500 newest entries, scaled to 2
EVENTS_KEPT == 2

\* --------------------------------------------------------------- inputs
Traders == {"t1", "t2"}
Keepers == {"k1", "k2"}
Deployer == "deployer"
Senders == Traders \cup Keepers \cup {Deployer}
\* the accounts the keeper can have in its Set
Tracked == Traders \cup {"t3"}
\* int256 answers of the oracle: one negative answer, zero, and 1..MaxPrice
Answers == (-1)..MaxPrice
\* leverage arguments: below range, lowest, highest, above range
Leverages == {0, 1, MAX_LEVERAGE, MAX_LEVERAGE + 1}
\* msg.value of openPosition and of plain transfers
Values == {0, 10}
\* (_mmBps, _liqFeeBps, _takerFeeBps) arguments of setParams
ParamChoices == {<<625, 50, 10>>, <<2000, 500, 100>>, <<2001, 50, 10>>,
                 <<625, 501, 10>>, <<625, 50, 101>>}

VARIABLES positions, latestAnswer, balance, owner,
          maintenanceMarginRatioBps, liquidationFeeBps, takerFeeBps,
          last, pending, submitted, log,
          open, lastScan, scanFrom, scanTo, scanned,
          traders, idx, awaiting, sent, calls, standing, inFlight, stuck,
          ticks, width, points, candles, ref, shown, stage,
          fixture, game, lastFootball, lastBasket, currentIndex, localAway,
          currentInterval, env, poll, origin, watched, applied, faults,
          feed, now, lastV, cgEnv, run,
          events, sticky, guard, ingested, served, recorded1,
          proposal, voters, handlers, voted,
          random, walked, retry

ledger == <<positions, balance, owner,
            maintenanceMarginRatioBps, liquidationFeeBps, takerFeeBps>>
keeperVars == <<pending, submitted>>
\* state of the programs that run beside the ledger
scanVars == <<open, lastScan, scanFrom, scanTo, scanned>>
loopVars == <<traders, idx, awaiting, sent, calls, standing, inFlight, stuck>>
candleVars == <<ticks, width, points, candles, ref, shown, stage>>
\* the local/away aggregator
awayVars == <<fixture, game, lastFootball, lastBasket, currentIndex, localAway,
              currentInterval, env, poll, origin, watched, applied, faults>>
\* the programs that feed the oracles and the chart
\* the CoinGecko publishers and the BTC.D oracle they push to
cgVars == <<feed, now, lastV, cgEnv, run>>
\* the event list of the ingest handler and the events handler beside it
listVars == <<events, sticky, guard, ingested, served, recorded1>>
feedVars == <<awayVars, cgVars, listVars>>
\* the proposals of the lab and the votes on them
labVars == <<proposal, voters, handlers, voted>>
\* the handlers of the site that stand beside the feeds
\* the random-walk daemon and the Random oracle it pushes to
walkVars == <<random, walked>>
siteVars == <<labVars, walkVars, retry>>
apart == <<scanVars, loopVars, candleVars, feedVars, siteVars>>
\* everything but the feeds
core == <<ledger, latestAnswer, last, keeperVars, log, scanVars, loopVars,
          candleVars, siteVars>>
\* everything but the site
offSite == <<ledger, latestAnswer, last, keeperVars, log, scanVars, loopVars,
             candleVars, feedVars>>
\* what a call that is not replayed from its events leaves alone
unobserved == <<log, apart>>
vars == <<ledger, latestAnswer, last, keeperVars, log, candleVars, feedVars, apart>>

\* struct Position, zero-initialised storage
ZeroPosition == [isOpen |-> FALSE, isLong |-> FALSE, leverage |-> 0,
                 margin |-> 0, entryPrice |-> 0]

\* receipt of the most recent call to the ledger
Receipt(op, sender, trader, ok, err, paid) ==
    [op |-> op, sender |-> sender, trader |-> trader, ok |-> ok, err |-> err,
     paid |-> paid]

NoCall == Receipt("none", Deployer, Deployer, TRUE, "", 0)

None == "none"

\* the blocks the chunks of the latest scan have read, whether a scan has
\* failed since lastScan was last set, and whether one had when it was set
NoScan == [blocks |-> {}, failed |-> FALSE, again |-> FALSE]

\* the state after construction, with the keeper's Set holding o and the
\* ledger standing as st
Constructed(o, st) ==
    /\ positions = [a \in Traders |-> ZeroPosition]
    /\ latestAnswer \in Answers
    /\ balance = 0
    /\ owner = Deployer
    /\ maintenanceMarginRatioBps = 625
    /\ liquidationFeeBps = 50
    /\ takerFeeBps = 10
    /\ last = NoCall
    /\ pending = [k \in Keepers |-> None]
    /\ submitted = [k \in Keepers |-> None]
    /\ log = <<>>
    /\ open = o
    /\ lastScan = 0
    /\ scanFrom = 0
    /\ scanTo = 0
    /\ scanned = NoScan
    /\ traders = <<>>
    /\ idx = 0
    /\ awaiting = "sleep"
    /\ sent = 0
    /\ calls = <<>>
    /\ standing = st
    /\ inFlight = {}
    /\ stuck = FALSE

\* the tick store holds tk, candles are asked for in buckets of w seconds,
\* and nothing has been built from them
Stored(tk, w) ==
    /\ ticks = tk
    /\ width = w
    /\ points = <<>>
    /\ candles = <<>>
    /\ ref = [set |-> FALSE, candles |-> <<>>]
    /\ shown = <<>>
    /\ stage = "stored"

\* process.env of the local/away daemon: ALWAYS_POLL_EVERY_MINUTE,
\* PUSH_EVERY_TICK, INGEST_URL with INGEST_SECRET, API_SPORTS_KEY
Envs ==
    [alwaysPollEveryMinute : BOOLEAN, pushEveryTick : BOOLEAN,
     ingest : BOOLEAN, apiKey : BOOLEAN]

\* the values the daemon takes when the environment sets none
Defaults ==
    [alwaysPollEveryMinute |-> TRUE, pushEveryTick |-> TRUE,
     ingest |-> FALSE, apiKey |-> FALSE]

NoPoll ==
    [n |-> 0, thrown |-> None, minute |-> None, ingestOk |-> TRUE,
     pushed |-> <<>>, posted |-> <<>>]

\* the local/away daemon has entered its loop under environment e; the
\* oracle gave no answer, both upstream games stand at 0-0.  A Map of the
\* daemon has one possible key: it is <<>> or holds the one entry
Started(e) ==
    /\ fixture = [home |-> 0, away |-> 0]
    /\ game = [home |-> 0, away |-> 0]
    /\ lastFootball = <<>>
    /\ lastBasket = <<>>
    /\ currentIndex = START_INDEX
    /\ localAway = 0
    /\ currentInterval = INTERVAL_MS
    /\ env = e
    /\ poll = NoPoll
    /\ origin = <<>>
    /\ watched = <<>>
    /\ applied = [football |-> 0, basket |-> 0]
    /\ faults = 0

\* Math.floor of an index kept in hundredths
mathFloor(n) == (n \div 100) * 100

\* the index the daemon starts from: the floor of the oracle's answer when
\* there is one above zero, and 10000 when there is none or the call throws
initialIndex(answers, latest) ==
    IF answers /\ latest > 0 THEN mathFloor(latest) ELSE START_INDEX

\* the local/away daemon has entered its loop under environment e while
\* the oracle answers latest
Resumed(e, latest) ==
    /\ fixture = [home |-> 0, away |-> 0]
    /\ game = [home |-> 0, away |-> 0]
    /\ lastFootball = <<>>
    /\ lastBasket = <<>>
    /\ currentIndex = initialIndex(TRUE, latest)
    /\ localAway = latest
    /\ currentInterval = INTERVAL_MS
    /\ env = e
    /\ poll = NoPoll
    /\ origin = <<>>
    /\ watched = <<>>
    /\ applied = [football |-> 0, basket |-> 0]
    /\ faults = 0

NoRun == [n |-> 0, by |-> None, pct |-> 0, pushed |-> FALSE, thrown |-> FALSE]

\* the BTC.D oracle has no answer yet; publisher p is the one that is run,
\* with MIN_CHANGE = m and FORCE_MAX_AGE_SEC = f
Publishing(p, m, f) ==
    /\ feed = [answer |-> 0, timestamp |-> 0]
    /\ now = 1
    /\ lastV = <<>>
    /\ cgEnv = [program |-> p, minChange |-> m, forceMaxAgeSec |-> f]
    /\ run = NoRun

NoIngest == [n |-> 0, ok |-> FALSE, mode |-> "", time |-> 0, value |-> 0]

\* the event list of the market is empty, no snapshot of it is kept, and
\* neither handler has been called
Listing ==
    /\ events = <<>>
    /\ sticky = <<>>
    /\ guard = FALSE
    /\ ingested = NoIngest
    /\ served = [n |-> 0, events |-> <<>>]
    /\ recorded1 = FALSE

\* the addresses that sign votes, and the handlers that serve lab-vote at
\* the same time
Voters == {"a", "b", "c"}
Handlers == {1, 2}

Idle == [pc |-> "idle", address |-> <<>>, raw |-> 0]

NoVote == [n |-> 0, address |-> <<>>, status |-> 0, fresh |-> FALSE]

\* no proposal has been submitted and no lab-vote request is being served.
\* The key btcd:lab:proposal:<id> is <<>> or holds the one record
Proposing ==
    /\ proposal = <<>>
    /\ voters = {}
    /\ handlers = [h \in Handlers |-> Idle]
    /\ voted = NoVote

NoWalk == [n |-> 0, stepBps |-> 0, pushed |-> FALSE]

\* the Random oracle answers r and the random-walk daemon has not stepped
Walking(r) ==
    /\ random = r
    /\ walked = NoWalk

\* getWithRetry has not been called
NoRetry == [pc |-> "idle", attempt |-> 0, slept |-> <<>>]

\* the site as it starts
Sited == Proposing /\ Walking(0) /\ retry = NoRetry

\* the feeds and the site as they start
Feeding == Started(Defaults) /\ Publishing("daemon", 0, 0) /\ Listing /\ Sited

Init == Constructed(<<>>, [a \in Tracked |-> "no"]) /\ Stored(<<>>, 1) /\ Feeding

\* ------------------------------------------------------------ the oracle
\* IBTCDOracle.latestAnswer() changes when a publisher pushes a price
pushPrice(p) ==
    /\ p # latestAnswer
    /\ latestAnswer' = p
    /\ UNCHANGED <<ledger, last, keeperVars, unobserved>>

\* ------------------------------------------------------------ the ledger
getPrice == [ok |-> latestAnswer >= 0, val |-> latestAnswer]

\* uint256 a - b of Solidity 0.8: Panic when b > a
_calcPnl(pos, price) ==
    LET notional == pos.margin * pos.leverage IN
    IF pos.entryPrice = 0 THEN [ok |-> TRUE, pnl |-> 0, notional |-> notional]
    ELSE IF pos.isLong
    THEN IF price < pos.entryPrice
         THEN [ok |-> FALSE, pnl |-> 0, notional |-> notional]
         ELSE [ok |-> TRUE,
               pnl |-> (notional * (price - pos.entryPrice)) \div pos.entryPrice,
               notional |-> notional]
    ELSE IF pos.entryPrice < price
         THEN [ok |-> FALSE, pnl |-> 0, notional |-> notional]
         ELSE [ok |-> TRUE,
               pnl |-> (notional * (pos.entryPrice - price)) \div pos.entryPrice,
               notional |-> notional]

Reverted(op, sender, trader, err) ==
    /\ last' = Receipt(op, sender, trader, FALSE, err, 0)
    /\ UNCHANGED ledger

\* receive() external payable {}
receive(sender, value) ==
    /\ balance + value <= MaxBalance
    /\ balance' = balance + value
    /\ last' = Receipt("receive", sender, sender, TRUE, "", 0)
    /\ UNCHANGED <<positions, owner, maintenanceMarginRatioBps,
                   liquidationFeeBps, takerFeeBps, latestAnswer, keeperVars,
                   unobserved>>

setParams(sender, _mmBps, _liqFeeBps, _takerFeeBps) ==
    /\ UNCHANGED <<latestAnswer, keeperVars, unobserved>>
    /\ IF sender # owner
       THEN Reverted("setParams", sender, sender, "Not owner")
       ELSE IF ~(_mmBps <= 2000)
       THEN Reverted("setParams", sender, sender, "mm too high")
       ELSE IF ~(_liqFeeBps <= 500)
       THEN Reverted("setParams", sender, sender, "fee too high")
       ELSE IF ~(_takerFeeBps <= 100)
       THEN Reverted("setParams", sender, sender, "fee too high")
       ELSE /\ maintenanceMarginRatioBps' = _mmBps
            /\ liquidationFeeBps' = _liqFeeBps
            /\ takerFeeBps' = _takerFeeBps
            /\ last' = Receipt("setParams", sender, sender, TRUE, "", 0)
            /\ UNCHANGED <<positions, balance, owner>>

\* levOk without its lower limit
levOk_noLowerLimit(leverage) == leverage <= MAX_LEVERAGE

\* require(leverage >= 1 && leverage <= MAX_LEVERAGE, "bad lev")
levOk(leverage) == leverage >= 1 /\ leverage <= MAX_LEVERAGE

\* openFee charged on the deposit instead of the notional
openFee_onDeposit(value, leverage) == (value * takerFeeBps) \div BPS

\* fee = (msg.value * leverage * takerFeeBps) / 10000
openFee(value, leverage) == ((value * leverage) * takerFeeBps) \div BPS

\* openError without require(!pos.isOpen, "has pos")
openError_noHasPos(sender, leverage, value) ==
    IF ~levOk(leverage) THEN "bad lev"
    ELSE IF ~(value > 0) THEN "no margin"
    ELSE IF ~getPrice.ok THEN "bad price"
    ELSE IF ~(balance + value >= openFee(value, leverage)) THEN "insuff liq"
    ELSE IF value < openFee(value, leverage) THEN "panic"
    ELSE ""

\* the require / Panic that stops openPosition, "" when it goes through
openError(sender, leverage, value) ==
    IF ~levOk(leverage) THEN "bad lev"
    ELSE IF ~(value > 0) THEN "no margin"
    ELSE IF positions[sender].isOpen THEN "has pos"
    ELSE IF ~getPrice.ok THEN "bad price"
    ELSE IF ~(balance + value >= openFee(value, leverage)) THEN "insuff liq"
    ELSE IF value < openFee(value, leverage) THEN "panic"
    ELSE ""

\* the Position openPosition stores
openedPosition(isLong, leverage, value) ==
    [isOpen |-> TRUE, isLong |-> isLong, leverage |-> leverage,
     margin |-> value - openFee(value, leverage), entryPrice |-> getPrice.val]

\* the ledger part of openPosition called by sender with msg.value = value
openCall(sender, isLong, leverage, value) ==
    /\ balance + value <= MaxBalance
    /\ LET err == openError(sender, leverage, value) IN
       IF err # ""
       THEN Reverted("openPosition", sender, sender, err)
       ELSE /\ positions' = [positions EXCEPT
                               ![sender] = openedPosition(isLong, leverage, value)]
            /\ balance' = balance + value
            /\ last' = Receipt("openPosition", sender, sender, TRUE, "", 0)
            /\ UNCHANGED <<owner, maintenanceMarginRatioBps,
                           liquidationFeeBps, takerFeeBps>>

openPosition(sender, isLong, leverage, value) ==
    /\ openCall(sender, isLong, leverage, value)
    /\ UNCHANGED <<latestAnswer, keeperVars, unobserved>>

\* markClosed that clears isOpen in every record
markClosed_all(trader) == [a \in Traders |-> [positions[a] EXCEPT !.isOpen = FALSE]]

\* markClosed that leaves isOpen set
markClosed_forgotten(trader) == positions

\* pos.isOpen = false on positions[trader]
markClosed(trader) == [positions EXCEPT ![trader].isOpen = FALSE]

\* fee = (notional * takerFeeBps) / 10000 of closePosition
closeFee(notional) == (notional * takerFeeBps) \div BPS

\* closePayout that forgets the closing fee
closePayout_noFee(pos, pnl, fee) ==
    LET settle == pos.margin + pnl IN
    IF settle <= 0 THEN 0 ELSE settle

\* payout = settle <= 0 ? 0 : uint256(settle)
closePayout(pos, pnl, fee) ==
    LET settle == pos.margin + pnl - fee IN
    IF settle <= 0 THEN 0 ELSE settle

\* closeError without require(ok, "payout fail")
closeError_unpaid(sender) ==
    IF ~positions[sender].isOpen THEN "no pos"
    ELSE IF ~getPrice.ok THEN "bad price"
    ELSE IF ~_calcPnl(positions[sender], getPrice.val).ok THEN "panic"
    ELSE ""

closeError(sender) ==
    IF ~positions[sender].isOpen THEN "no pos"
    ELSE IF ~getPrice.ok THEN "bad price"
    ELSE LET r == _calcPnl(positions[sender], getPrice.val) IN
         IF ~r.ok THEN "panic"
         ELSE IF closePayout(positions[sender], r.pnl, closeFee(r.notional)) > balance
         THEN "payout fail"
         ELSE ""

\* the ledger part of closePosition called by sender
closeCall(sender) ==
    LET err == closeError(sender) IN
    IF err # ""
    THEN Reverted("closePosition", sender, sender, err)
    ELSE LET r == _calcPnl(positions[sender], getPrice.val)
             payout == closePayout(positions[sender], r.pnl, closeFee(r.notional))
         IN /\ positions' = markClosed(sender)
            /\ balance' = balance - payout
            /\ last' = Receipt("closePosition", sender, sender, TRUE, "", payout)
            /\ UNCHANGED <<owner, maintenanceMarginRatioBps,
                           liquidationFeeBps, takerFeeBps>>

closePosition(sender) ==
    /\ closeCall(sender)
    /\ UNCHANGED <<latestAnswer, keeperVars, unobserved>>

\* view call: ok = FALSE when the call reverts, val = the bool returned
canLiquidate(trader) ==
    LET pos == positions[trader] IN
    IF ~pos.isOpen THEN [ok |-> TRUE, val |-> FALSE]
    ELSE IF ~getPrice.ok THEN [ok |-> FALSE, val |-> FALSE]
    ELSE LET r == _calcPnl(pos, getPrice.val) IN
         IF ~r.ok THEN [ok |-> FALSE, val |-> FALSE]
         ELSE LET equity == pos.margin + r.pnl
                  maintenance == (r.notional * maintenanceMarginRatioBps) \div BPS
              IN [ok |-> TRUE, val |-> equity <= maintenance]

\* liqReward without the cap at liqFee
liqReward_uncapped(equity, liqFee) == IF equity <= 0 THEN 0 ELSE equity

\* reward = equity <= 0 ? 0 : uint256(equity) > liqFee ? liqFee : uint256(equity)
liqReward(equity, liqFee) ==
    IF equity <= 0 THEN 0 ELSE IF equity > liqFee THEN liqFee ELSE equity

liquidateError(trader) ==
    IF ~positions[trader].isOpen THEN "no pos"
    ELSE IF ~canLiquidate(trader).ok
    THEN (IF getPrice.ok THEN "panic" ELSE "bad price")
    ELSE IF ~canLiquidate(trader).val THEN "healthy"
    ELSE LET r == _calcPnl(positions[trader], getPrice.val) IN
         IF liqReward(positions[trader].margin + r.pnl,
                      (r.notional * liquidationFeeBps) \div BPS) > balance
         THEN "liq fee fail"
         ELSE ""

\* the ledger part of liquidate(trader) called by sender
liquidateCall(sender, trader) ==
    LET err == liquidateError(trader) IN
    IF err # ""
    THEN Reverted("liquidate", sender, trader, err)
    ELSE LET r == _calcPnl(positions[trader], getPrice.val)
             reward == liqReward(positions[trader].margin + r.pnl,
                                 (r.notional * liquidationFeeBps) \div BPS)
         IN /\ positions' = markClosed(trader)
            /\ balance' = balance - reward
            /\ last' = Receipt("liquidate", sender, trader, TRUE, "", reward)
            /\ UNCHANGED <<owner, maintenanceMarginRatioBps,
                           liquidationFeeBps, takerFeeBps>>

liquidate(sender, trader) ==
    /\ liquidateCall(sender, trader)
    /\ UNCHANGED <<latestAnswer, keeperVars, unobserved>>

\* ----------------------------------------------------------- the keepers
\* keepers-daemon main loop, one tracked trader: await canLiquidate(trader),
\* and when it answers true send liquidate(trader)
keeperObserve(k, trader) ==
    /\ pending[k] = None
    /\ canLiquidate(trader).ok
    /\ canLiquidate(trader).val
    /\ pending' = [pending EXCEPT ![k] = trader]
    /\ submitted' = [j \in Keepers |-> None]
    /\ UNCHANGED <<ledger, latestAnswer, last, unobserved>>

\* the keeper's liquidate transaction is executed by the ledger
keeperLiquidate(k) ==
    /\ pending[k] # None
    /\ liquidateCall(k, pending[k])
    /\ pending' = [pending EXCEPT ![k] = None]
    /\ submitted' = [submitted EXCEPT
                       ![k] = IF last'.ok THEN "ok" ELSE "rejected"]
    /\ UNCHANGED <<latestAnswer, unobserved>>

\* ---------------------------------------------------------- the event log
\* eventOf where closePosition announces an opening
eventOf_closeAsOpened(op) ==
    IF op = "liquidate" THEN "Liquidated" ELSE "PositionOpened"

\* emit PositionOpened / PositionClosed / Liquidated of the three calls
eventOf(op) ==
    IF op = "openPosition" THEN "PositionOpened"
    ELSE IF op = "closePosition" THEN "PositionClosed"
    ELSE "Liquidated"

\* the log after the call whose receipt is last': the emit is the last
\* statement of a call that went through, a reverted call emits nothing
emitted ==
    IF last'.ok
    THEN Append(log, [ev |-> eventOf(last'.op), trader |-> last'.trader])
    ELSE log

\* the call together with its event, while the log has room
recorded ==
    /\ last'.ok => Len(log) < MaxLog
    /\ log' = emitted
    /\ UNCHANGED <<latestAnswer, keeperVars, apart>>

openPositionLogged(sender, isLong, leverage, value) ==
    openCall(sender, isLong, leverage, value) /\ recorded

closePositionLogged(sender) == closeCall(sender) /\ recorded

liquidateLogged(sender, trader) == liquidateCall(sender, trader) /\ recorded

\* ------------------------------------------------- the keeper's log scan
\* The ledger the keepers run against also emits StopsUpdated (stops set on
\* an open position) and StopClosed (position closed by a triggered stop).
\* Block n of the chain holds the event log[n]; the latest block is Len(log).
OpenEvents == {"PositionOpened", "StopsUpdated"}
TerminalEvents == {"PositionClosed", "Liquidated", "StopClosed"}

\* a call about account a goes through and the ledger emits ev in a new
\* block: an opening needs no open position, the other four need one; of
\* the stored position only isOpen is followed here
ledgerEvent(a, ev) ==
    /\ Len(log) < MaxLog
    /\ positions[a].isOpen = (ev # "PositionOpened")
    /\ positions' = [positions EXCEPT ![a].isOpen = (ev \in OpenEvents)]
    /\ log' = Append(log, [ev |-> ev, trader |-> a])
    /\ UNCHANGED <<balance, owner, maintenanceMarginRatioBps,
                   liquidationFeeBps, takerFeeBps>>
    /\ UNCHANGED <<latestAnswer, last, keeperVars, apart>>

\* the members of the Set open, in insertion order
Members(o) == {o[i] : i \in 1..Len(o)}

\* addOpen: open.add(t); the address test passes for every account
addOpen(o, t) == IF t \in Members(o) THEN o ELSE Append(o, t)

\* removeOpen: if (open.has(t)) open.delete(t)
removeOpen(o, t) == SelectSeq(o, LAMBDA x : x # t)

\* queryFilter(perps.filters.<ev>(), from, to): the traders of the events
\* of one type in blocks from..to, in block order
RECURSIVE queryFilter(_, _, _)
queryFilter(ev, from, to) ==
    IF from > to THEN <<>>
    ELSE (IF log[from].ev = ev THEN <<log[from].trader>> ELSE <<>>)
         \o queryFilter(ev, from + 1, to)

\* for (const l of logs) addOpen(...)
RECURSIVE addAll(_, _)
addAll(o, ts) == IF ts = <<>> THEN o ELSE addAll(addOpen(o, Head(ts)), Tail(ts))

\* for (const l of logs) removeOpen(...)
RECURSIVE removeAll(_, _)
removeAll(o, ts) ==
    IF ts = <<>> THEN o ELSE removeAll(removeOpen(o, Head(ts)), Tail(ts))

\* the five loops of one chunk: posOpened, posClosed, liqs, stopClosed,
\* stopsUpd, each over the logs of its own query
processChunk(o, from, to) ==
    LET o1 == addAll(o, queryFilter("PositionOpened", from, to))
        o2 == removeAll(o1, queryFilter("PositionClosed", from, to))
        o3 == removeAll(o2, queryFilter("Liquidated", from, to))
        o4 == removeAll(o3, queryFilter("StopClosed", from, to))
    IN addAll(o4, queryFilter("StopsUpdated", from, to))

\* scanNewLogs up to its loop: toBlock = latest block, nothing to do when
\* toBlock <= lastScan
scanStart ==
    /\ scanTo = 0
    /\ Len(log) > lastScan
    /\ scanTo' = Len(log)
    /\ scanFrom' = lastScan + 1
    /\ scanned' = [scanned EXCEPT !.blocks = {}]
    /\ UNCHANGED <<open, lastScan>>
    /\ UNCHANGED <<ledger, latestAnswer, last, keeperVars, log, candleVars, feedVars, siteVars, loopVars>>

\* one turn of the chunk loop; after the last chunk lastScan = toBlock
scanChunk ==
    /\ scanTo # 0
    /\ LET end == IF scanFrom + SCAN_CHUNK - 1 < scanTo
                  THEN scanFrom + SCAN_CHUNK - 1 ELSE scanTo
       IN /\ open' = processChunk(open, scanFrom, end)
          /\ scanned' = [blocks |-> scanned.blocks \cup (scanFrom..end),
                          failed |-> scanned.failed /\ end # scanTo,
                          again |-> IF end = scanTo THEN scanned.failed
                                    ELSE scanned.again]
          /\ IF end = scanTo
             THEN lastScan' = scanTo /\ scanTo' = 0 /\ scanFrom' = 0
             ELSE scanFrom' = end + 1 /\ UNCHANGED <<lastScan, scanTo>>
    /\ UNCHANGED <<ledger, latestAnswer, last, keeperVars, log, candleVars, feedVars, siteVars, loopVars>>

\* a failed scan that moves the cursor to toBlock all the same
scanFail_skipping ==
    /\ scanTo # 0
    /\ scanTo' = 0
    /\ scanFrom' = 0
    /\ lastScan' = scanTo
    /\ scanned' = [scanned EXCEPT !.failed = TRUE]
    /\ UNCHANGED open
    /\ UNCHANGED <<ledger, latestAnswer, last, keeperVars, log, candleVars, feedVars, siteVars, loopVars>>

\* a query of the chunk fails after its retries: the catch leaves lastScan
\* and keeps what earlier chunks did to open
scanFail ==
    /\ scanTo # 0
    /\ scanTo' = 0
    /\ scanFrom' = 0
    /\ scanned' = [scanned EXCEPT !.failed = TRUE]
    /\ UNCHANGED <<open, lastScan>>
    /\ UNCHANGED <<ledger, latestAnswer, last, keeperVars, log, candleVars, feedVars, siteVars, loopVars>>

\* ------------------------------------------------ the keeper's main loop
\* What the ledger answers about an account at the moment it is asked:
\* canLiquidate is true in standing "liq" and "both", shouldClose in "stop"
\* and "both".
Standing == {"no", "liq", "stop", "both"}

\* the contents a Set of accounts can have, in insertion order
Orders ==
    {o \in UNION {[1..n -> Tracked] : n \in 0..Cardinality(Tracked)} :
        \A i, j \in 1..Len(o) : o[i] = o[j] => i = j}

\* a transaction the keeper sent is executed: liquidate / closeIfTriggered
\* on an account that is not liquidatable / triggered reverts; on one that
\* is, it closes the position, or reverts when the transfer it makes fails
\* (stuck remembers that this happened)
executeTx(tx, ok) ==
    /\ tx \in inFlight
    /\ inFlight' = inFlight \ {tx}
    /\ LET due == IF tx.fn = "liquidate"
                  THEN standing[tx.trader] \in {"liq", "both"}
                  ELSE standing[tx.trader] \in {"stop", "both"}
       IN /\ standing' = IF due /\ ok
                       THEN [standing EXCEPT ![tx.trader] = "no"]
                       ELSE standing
          /\ stuck' = (stuck \/ (due /\ ~ok))
    /\ UNCHANGED <<traders, idx, awaiting, sent, calls>>
    /\ UNCHANGED <<ledger, latestAnswer, last, keeperVars, log, candleVars, feedVars, siteVars, scanVars>>

\* the account of the current turn of for (const trader of traders)
cur == traders[idx]

Call(fn, out) == [fn |-> fn, trader |-> cur, out |-> out]

\* capReached that lets one more transaction through
capReached_late(n) == n > MAX_TX_PER_LOOP

\* if (sent >= MAX_TX_PER_LOOP) break
capReached(n) == n >= MAX_TX_PER_LOOP

\* turn that ends the iteration after the first account
turn_firstOnly(ts, i, n) ==
    IF i > 1 \/ i > Len(ts) THEN "sleep" ELSE "canLiquidate"

\* where the loop stands when it starts the turn of ts[i] having sent n
\* transactions: past the array or at the break it sleeps, otherwise it
\* awaits canLiquidate
turn(ts, i, n) ==
    IF i > Len(ts) \/ capReached(n) THEN "sleep" ELSE "canLiquidate"

\* the turn of cur is over (continue, the end of the body, or the catch)
nextTurn(n) ==
    /\ idx' = idx + 1
    /\ sent' = n
    /\ awaiting' = turn(traders, idx + 1, n)
    /\ UNCHANGED <<open, traders>>

\* sentAfter that counts a call that threw
sentAfter_countsThrow(out) == sent + 1

\* sent++ after a transaction was handed over; the catch leaves sent
sentAfter(out) == IF out = "sent" THEN sent + 1 ELSE sent

\* await perps.liquidate(...) / perps.closeIfTriggered(...): the node takes
\* the transaction (out = "sent") or the call throws (out = "threw")
send(fn, out) ==
    /\ awaiting = fn
    /\ calls' = Append(calls, Call(fn, out))
    /\ inFlight' = IF out = "sent"
                   THEN inFlight \cup {[fn |-> fn, trader |-> cur]}
                   ELSE inFlight
    /\ nextTurn(sentAfter(out))
    /\ UNCHANGED <<standing, stuck>>
    /\ UNCHANGED <<ledger, latestAnswer, last, keeperVars, log, candleVars, feedVars, siteVars,
                   lastScan, scanFrom, scanTo, scanned>>

\* the top of while (true): scanNewLogs leaves the Set as o, then
\* sent = 0 and traders = Array.from(open)
loopStart(o) ==
    /\ awaiting = "sleep"
    /\ open' = o
    /\ traders' = o
    /\ idx' = 1
    /\ sent' = 0
    /\ calls' = <<>>
    /\ awaiting' = turn(o, 1, 0)
    /\ UNCHANGED <<standing, inFlight, stuck>>
    /\ UNCHANGED <<ledger, latestAnswer, last, keeperVars, log, candleVars, feedVars, siteVars,
                   lastScan, scanFrom, scanTo, scanned>>

\* afterCanLiquidate that asks shouldClose whatever the answer
afterCanLiquidate_ignored(out) == "shouldClose"

\* if (canLiq) { liquidate ... } else shouldClose
afterCanLiquidate(out) == IF out = "true" THEN "liquidate" ELSE "shouldClose"

\* const canLiq = await perps.canLiquidate(trader): the answer, or a throw
queryCanLiquidate(out) ==
    /\ awaiting = "canLiquidate"
    /\ calls' = Append(calls, Call("canLiquidate", out))
    /\ IF out = "threw"
       THEN nextTurn(sent)
       ELSE /\ awaiting' = afterCanLiquidate(out)
            /\ UNCHANGED <<open, traders, idx, sent>>
    /\ UNCHANGED <<standing, inFlight, stuck>>
    /\ UNCHANGED <<ledger, latestAnswer, last, keeperVars, log, candleVars, feedVars, siteVars,
                   lastScan, scanFrom, scanTo, scanned>>

\* const res = await perps.shouldClose(trader); trig = Boolean(res[0])
queryShouldClose(out) ==
    /\ awaiting = "shouldClose"
    /\ calls' = Append(calls, Call("shouldClose", out))
    /\ IF out = "true"
       THEN /\ awaiting' = "closeIfTriggered"
            /\ UNCHANGED <<open, traders, idx, sent>>
       ELSE nextTurn(sent)
    /\ UNCHANGED <<standing, inFlight, stuck>>
    /\ UNCHANGED <<ledger, latestAnswer, last, keeperVars, log, candleVars, feedVars, siteVars,
                   lastScan, scanFrom, scanTo, scanned>>

\* the outcomes of a view call and of handing over a transaction
Outcomes == {"true", "false", "threw"}
Handovers == {"sent", "threw"}

\* ------------------------------------------------------------ the candles
mathMax(a, b) == IF a >= b THEN a ELSE b

mathMin(a, b) == IF a <= b THEN a ELSE b

mathAbs(a) == IF a >= 0 THEN a ELSE -a

\* bucketSec of the handler, one per timeframe
BucketWidths == {2, 3}

\* what zrange returns: ticks by ascending score (time), ties by member; the
\* member is the value, so no two ticks of the store share a value
StoredTicks ==
    {s \in UNION {[1..n -> [time : 0..MaxTime, value : 1..MaxValue]] :
                    n \in 0..MaxTicks} :
        \A i, j \in 1..Len(s) :
           i < j => /\ s[i].value # s[j].value
                    /\ \/ s[i].time < s[j].time
                       \/ s[i].time = s[j].time /\ s[i].value < s[j].value}

\* three ticks a minute apart around a bucket edge of the '1m' timeframe
\* (bucketSec = 60)
MinuteTicks ==
    <<[time |-> 0, value |-> 100], [time |-> 30, value |-> 110],
      [time |-> 61, value |-> 90]>>

\* one step of the stable sort: p goes behind every element whose time is
\* not above its own
insertByTime(sorted, p) ==
    LET k == Cardinality({i \in 1..Len(sorted) : sorted[i].time <= p.time})
    IN SubSeq(sorted, 1, k) \o <<p>> \o SubSeq(sorted, k + 1, Len(sorted))

\* xs.sort((a, b) => a.time - b.time)
RECURSIVE sortByTime(_)
sortByTime(xs) ==
    IF xs = <<>> THEN <<>>
    ELSE insertByTime(sortByTime(SubSeq(xs, 1, Len(xs) - 1)), xs[Len(xs)])

\* bucketOf without the floor: every timestamp is its own bucket
bucketOf_notFloored(ts, bucketSec) == ts

\* Math.floor(ts / bucketSec) * bucketSec
bucketOf(ts, bucketSec) == (ts \div bucketSec) * bucketSec

\* updated that leaves the close of the bucket's first tick
updated_closeKept(prev, value) ==
    [prev EXCEPT !.high = mathMax(prev.high, value),
                 !.low = mathMin(prev.low, value)]

\* prev.high = max, prev.low = min, prev.close = p.value
updated(prev, value) ==
    [prev EXCEPT !.high = mathMax(prev.high, value),
                 !.low = mathMin(prev.low, value),
                 !.close = value]

\* the Map buckets after the for loop over ps
RECURSIVE fill(_, _, _)
fill(ps, bucketSec, buckets) ==
    IF ps = <<>> THEN buckets
    ELSE LET p == Head(ps)
             bucket == bucketOf(p.time, bucketSec)
         IN fill(Tail(ps), bucketSec,
                 [b \in DOMAIN buckets \cup {bucket} |->
                    IF b # bucket THEN buckets[b]
                    ELSE IF bucket \in DOMAIN buckets
                    THEN updated(buckets[bucket], p.value)
                    ELSE [time |-> bucket, open |-> p.value, high |-> p.value,
                          low |-> p.value, close |-> p.value]])

\* Array.from(buckets.entries()).sort((a, b) => a[0] - b[0]).map(([, c]) => c)
RECURSIVE byBucket(_)
byBucket(buckets) ==
    IF DOMAIN buckets = {} THEN <<>>
    ELSE LET m == CHOOSE b \in DOMAIN buckets : \A c \in DOMAIN buckets : b <= c
         IN <<buckets[m]>> \o byBucket([b \in DOMAIN buckets \ {m} |-> buckets[b]])

aggregate(ps, bucketSec) ==
    IF ps = <<>> THEN <<>> ELSE byBucket(fill(ps, bucketSec, <<>>))

\* forcedOpen that does not widen the candle
forcedOpen_notWidened(curr, desiredOpen) == [curr EXCEPT !.open = desiredOpen]

\* curr.open = desiredOpen; curr.high = max(high, open); curr.low = min(low, open)
forcedOpen(curr, desiredOpen) ==
    [curr EXCEPT !.open = desiredOpen,
                 !.high = mathMax(curr.high, desiredOpen),
                 !.low = mathMin(curr.low, desiredOpen)]

RECURSIVE normalizeContinuity(_)
normalizeContinuity(cs) ==
    IF Len(cs) <= 1 THEN cs
    ELSE LET out == normalizeContinuity(SubSeq(cs, 1, Len(cs) - 1))
             prev == out[Len(out)]
             curr == cs[Len(cs)]
         IN Append(out, IF mathAbs(curr.open - prev.close) > EPS
                        THEN forcedOpen(curr, prev.close)
                        ELSE curr)

\* the ticks reach the candle builder in another order
reorder(i) ==
    /\ i \in 1..(Len(ticks) - 1)
    /\ ticks' = [ticks EXCEPT ![i] = ticks[i + 1], ![i + 1] = ticks[i]]
    /\ stage' = "stored"
    /\ UNCHANGED <<width, points, candles, ref, shown>>
    /\ UNCHANGED <<ledger, latestAnswer, last, keeperVars, log, scanVars, loopVars, feedVars, siteVars>>

\* GET /api/candles: the ticks are sorted by time and aggregated; ref keeps
\* the candles of the first answer
build ==
    /\ stage = "stored"
    /\ points' = sortByTime(ticks)
    /\ candles' = aggregate(points', width)
    /\ ref' = IF ref.set THEN ref ELSE [set |-> TRUE, candles |-> candles']
    /\ stage' = "built"
    /\ UNCHANGED <<ticks, width, shown>>
    /\ UNCHANGED <<ledger, latestAnswer, last, keeperVars, log, scanVars, loopVars, feedVars, siteVars>>

\* the chart: cs.sort((a, b) => a.time - b.time); normalizeContinuity(cs)
normalize ==
    /\ stage = "built"
    /\ shown' = normalizeContinuity(sortByTime(candles))
    /\ stage' = "shown"
    /\ UNCHANGED <<ticks, width, points, candles, ref>>
    /\ UNCHANGED <<ledger, latestAnswer, last, keeperVars, log, scanVars, loopVars, feedVars, siteVars>>

\* a new candle that opens at the live price
rolled_openAtPrice(prevLast, currBucket, v) ==
    [time |-> currBucket, open |-> v, high |-> v, low |-> v, close |-> v]

\* the candle of a new bucket: it opens at the close of the last candle
rolled(prevLast, currBucket, v) ==
    LET op == prevLast.close
    IN [time |-> currBucket, open |-> op, high |-> mathMax(op, v),
        low |-> mathMin(op, v), close |-> v]

\* setCandles(prev => ...) of the live price effect, for the answer v of
\* the oracle and its timestamp ts
lived(prev, bucketSec, v, ts) ==
    IF prev = <<>> THEN prev
    ELSE LET lastBucket == bucketOf(prev[Len(prev)].time, bucketSec)
             currBucket == bucketOf(ts, bucketSec)
         IN IF currBucket = lastBucket
            THEN [prev EXCEPT ![Len(prev)] = updated(prev[Len(prev)], v)]
            ELSE IF currBucket > lastBucket
            THEN Append(prev, rolled(prev[Len(prev)], currBucket, v))
            ELSE prev

\* the chart reads latestAnswer and latestTimestamp of the oracle again
livePrice(v, ts) ==
    /\ stage \in {"shown", "live"}
    /\ shown' = lived(shown, width, v, ts)
    /\ stage' = "live"
    /\ UNCHANGED <<ticks, width, points, candles, ref>>
    /\ UNCHANGED <<ledger, latestAnswer, last, keeperVars, log, scanVars, loopVars, feedVars, siteVars>>

\* ------------------------------------------------- local/away aggregator
\* One loop of localaway-daemon.ts runs to its sleep before the next starts;
\* nothing else writes its variables, so one loop is one action.  One
\* football fixture and one basketball game are live; volleyball and
\* handball have no live game, their minutes only keep the neutral tick away.
Minutes == {"other", "basket", "hand"}

\* where a loop can throw: the fixtures fetch, the pushPrice of a football
\* change, the games fetch, the pushPrice of a basketball change, the
\* pushPrice of the neutral tick
Throws == {None, "fetch", "football", "games", "basket", "tick"}

\* upstream: a goal of the live football fixture
goal(side) ==
    /\ fixture[side] < (IF side = "home" THEN MaxGoals ELSE 1)
    /\ fixture' = [fixture EXCEPT ![side] = @ + 1]
    /\ UNCHANGED <<game, lastFootball, lastBasket, currentIndex, localAway,
                   currentInterval, env, poll, origin, watched, applied, faults>>
    /\ UNCHANGED <<core, cgVars, listVars>>

\* upstream: a point of the live basketball game
point(side) ==
    /\ game[side] < MaxPoints
    /\ game' = [game EXCEPT ![side] = @ + 1]
    /\ UNCHANGED <<fixture, lastFootball, lastBasket, currentIndex, localAway,
                   currentInterval, env, poll, origin, watched, applied, faults>>
    /\ UNCHANGED <<core, cgVars, listVars>>

\* Math.max(1, currentIndex * (1 + netPct)) with netPct = net / den, on the
\* grid of hundredths
moved(index, net, den) == mathMax(FLOOR_INDEX, index + (index * net) \div den)

\* toScaled: BigInt(Math.round(n * 1e8)); a whole number of hundredths is
\* represented exactly, and the answer is kept in hundredths here
toScaled(n) == n

\* the cursor a score is compared with: lastX.get(id) || { home, away }
cursorOr(cursor, score) == IF cursor = <<>> THEN score ELSE cursor[1]

\* Math.max(0, cur - prev) of either side
deltas(cursor, score) ==
    [home |-> mathMax(0, score.home - cursorOr(cursor, score).home),
     away |-> mathMax(0, score.away - cursorOr(cursor, score).away)]

still(d) == d.home = 0 /\ d.away = 0

\* post that tags every value as a point
post_point(value, type, ingestOk) ==
    IF env.ingest /\ ingestOk THEN <<[value |-> value, type |-> "point"]>> ELSE <<>>

\* the ingest post of a published value: sent when INGEST_URL and
\* INGEST_SECRET are set, lost without effect when the post fails
post(value, type, ingestOk) ==
    IF env.ingest /\ ingestOk THEN <<[value |-> value, type |-> type]>> ELSE <<>>

\* cadence control at the end of a loop
cadence(interval) ==
    IF env.alwaysPollEveryMinute THEN INTERVAL_MS
    ELSE mathMin((interval * 3) \div 2, MAX_INTERVAL_MS)

\* one loop of the daemon at a minute of the given kind; thrown names the
\* call that throws in it, ingestOk tells whether ingest posts arrive
pollCycle(minute, thrown, ingestOk) ==
    LET \* FOOTBALL
        fetched == thrown # "fetch"
        dF == deltas(lastFootball, fixture)
        activeF == fetched /\ ~still(dF)
        indexF == IF activeF THEN moved(currentIndex, dF.home - dF.away, FOOTBALL_DEN)
                  ELSE currentIndex
        pushedF == activeF /\ thrown # "football"
        footballActivity == IF activeF THEN 1 ELSE 0
        \* the loop goes on behind the football part
        on == fetched /\ (activeF => pushedF)
        \* BASKETBALL
        processBasket == minute = "basket"
        listed == on /\ processBasket /\ env.apiKey /\ thrown # "games"
        dB == deltas(lastBasket, game)
        activeB == listed /\ ~still(dB)
        indexB == IF activeB THEN moved(indexF, dB.home - dB.away, BASKET_DEN)
                  ELSE indexF
        pushedB == activeB /\ thrown # "basket"
        \* no-activity tick
        quiet == on /\ footballActivity = 0 /\ minute = "other"
        ticked == quiet /\ env.pushEveryTick /\ thrown # "tick"
        hit == \/ thrown = "fetch"
               \/ thrown = "football" /\ activeF
               \/ thrown = "games" /\ on /\ processBasket /\ env.apiKey
               \/ thrown = "basket" /\ activeB
               \/ thrown = "tick" /\ quiet /\ env.pushEveryTick
        pushes == (IF pushedF THEN <<toScaled(indexF)>> ELSE <<>>)
                  \o (IF pushedB THEN <<toScaled(indexB)>> ELSE <<>>)
                  \o (IF ticked THEN <<toScaled(indexB)>> ELSE <<>>)
        posts == (IF pushedF THEN post(indexF, "point", ingestOk) ELSE <<>>)
                 \o (IF pushedB THEN post(indexB, "point", ingestOk) ELSE <<>>)
                 \o (IF ticked THEN post(indexB, "tick", ingestOk) ELSE <<>>)
        \* currentInterval = baseInterval at the end of the try block
        interval == IF on /\ thrown # "tick" THEN INTERVAL_MS ELSE currentInterval
    IN /\ thrown # None => hit
       /\ ~env.ingest => ingestOk
       /\ thrown = "basket" => faults < MaxFaults
       /\ faults' = IF thrown = "basket" THEN faults + 1 ELSE faults
       /\ currentIndex' = indexB
       /\ lastFootball' = IF pushedF THEN <<fixture>> ELSE lastFootball
       /\ lastBasket' = IF listed /\ (activeB => pushedB) THEN <<game>> ELSE lastBasket
       /\ localAway' = IF pushes = <<>> THEN localAway ELSE pushes[Len(pushes)]
       /\ currentInterval' = cadence(interval)
       /\ origin' = IF fetched /\ origin = <<>> THEN <<fixture>> ELSE origin
       /\ watched' = IF fetched THEN <<fixture>> ELSE watched
       /\ applied' = [football |-> applied.football
                                     + (IF activeF THEN dF.home + dF.away ELSE 0),
                      basket |-> applied.basket
                                   + (IF activeB THEN dB.home + dB.away ELSE 0)]
       /\ poll' = [n |-> 1 - poll.n, thrown |-> thrown,
                   minute |-> minute, ingestOk |-> ingestOk,
                   pushed |-> pushes, posted |-> posts]
       /\ UNCHANGED <<fixture, game, env>>
       /\ UNCHANGED <<core, cgVars, listVars>>

\* the daemon is started again: main runs from its first line, with empty
\* cursors and the index read from the oracle; answers tells whether
\* oracle.latestAnswer() returns
restart(answers) ==
    /\ lastFootball' = <<>>
    /\ lastBasket' = <<>>
    /\ currentIndex' = initialIndex(answers, localAway)
    /\ currentInterval' = INTERVAL_MS
    /\ poll' = [NoPoll EXCEPT !.n = 1 - poll.n,
                               !.thrown = IF answers THEN None ELSE "latest"]
    /\ UNCHANGED <<fixture, game, localAway, env, origin, watched, applied, faults>>
    /\ UNCHANGED <<core, cgVars, listVars>>

\* ------------------------------------------------- CoinGecko publishers
\* Three programs push the BTC dominance to the BTC.D oracle: the one-shot
\* push with the staleness guard, the one-shot push without it, and the
\* daemon; a deployment runs one of them.  The answer is kept in the unit of pct (parseUnits(pct.toFixed(8),
\* 8) is exact for the whole numbers used here); the oracle stamps an answer
\* with the time of its push.
Pcts == 1..MaxPct

\* the program that is run against the oracle
Programs == {"guarded", "plain", "daemon"}

\* Date.now() moves on
elapse ==
    /\ now < MaxNow
    /\ now' = now + 1
    /\ UNCHANGED <<feed, lastV, cgEnv, run>>
    /\ UNCHANGED <<core, awayVars, listVars>>

\* oracle.pushPrice(priceScaled) and tx.wait(); ok tells whether both return
pushed(pct, ok) == IF ok THEN [answer |-> pct, timestamp |-> now] ELSE feed

ran(by, pct, push, ok) ==
    [n |-> 1 - run.n, by |-> by, pct |-> pct, pushed |-> push /\ ok,
     thrown |-> push /\ ~ok]

\* the staleness guard of the one-shot push
isStale ==
    /\ cgEnv.forceMaxAgeSec > 0
    /\ feed.timestamp = 0 \/ now - feed.timestamp >= cgEnv.forceMaxAgeSec

\* diff < minChange
small(pct, baseline) == mathAbs(pct - baseline) < cgEnv.minChange

\* main of the one-shot push with the staleness guard
pushGuarded(pct, ok) ==
    LET push == ~(cgEnv.minChange > 0 /\ ~isStale /\ small(pct, feed.answer))
    IN /\ cgEnv.program = "guarded"
       /\ feed' = IF push THEN pushed(pct, ok) ELSE feed
       /\ run' = ran("guarded", pct, push, ok)
       /\ UNCHANGED <<now, lastV, cgEnv>>
       /\ UNCHANGED <<core, awayVars, listVars>>

\* main of coingecko-push.ts
pushPlain(pct, ok) ==
    LET push == ~(cgEnv.minChange > 0 /\ small(pct, feed.answer))
    IN /\ cgEnv.program = "plain"
       /\ feed' = IF push THEN pushed(pct, ok) ELSE feed
       /\ run' = ran("plain", pct, push, ok)
       /\ UNCHANGED <<now, lastV, cgEnv>>
       /\ UNCHANGED <<core, awayVars, listVars>>

\* one round of the daemon: runOnce(oracleAddr, last) and last = { v }; a
\* throw leaves last as it was
runOnce(pct, ok) ==
    LET push == ~(lastV # <<>> /\ small(pct, lastV[1]))
    IN /\ cgEnv.program = "daemon"
       /\ feed' = IF push THEN pushed(pct, ok) ELSE feed
       /\ lastV' = IF push /\ ok THEN <<pct>> ELSE lastV
       /\ run' = ran("daemon", pct, push, ok)
       /\ UNCHANGED <<now, cgEnv>>
       /\ UNCHANGED <<core, awayVars, listVars>>

\* ------------------------------------------------- ingest and events
\* The tick series of a market is a Redis sorted set: ticks holds it in the
\* order of zrange, by score and then by member.  Its event list is a Redis
\* list with the newest entry at the head.  The calls to Redis return; a
\* handler runs to its response before the next one starts.

\* the sorted set without the given member
RECURSIVE without(_, _)
without(zset, member) ==
    IF zset = <<>> THEN <<>>
    ELSE IF zset[1].value = member THEN without(Tail(zset), member)
    ELSE <<zset[1]>> \o without(Tail(zset), member)

\* p stands ahead of q in the sorted set
ahead(p, q) == p.time < q.time \/ (p.time = q.time /\ p.value < q.value)

\* redis.zadd(key, { score, member }): a member that is in the set already
\* gets the new score, any other member is added
zadd(zset, score, member) ==
    LET rest == without(zset, member)
        p == [time |-> score, value |-> member]
        k == Cardinality({i \in 1..Len(rest) : ahead(rest[i], p)})
    IN SubSeq(rest, 1, k) \o <<p>> \o SubSeq(rest, k + 1, Len(rest))

\* zremrangebyrank that removes from the other end
zremrangebyrank_newest(zset, start, stop) ==
    SubSeq(zset, 1, Len(zset) - (stop - start + 1))

\* redis.zremrangebyrank(key, start, stop), ranks from 0
zremrangebyrank(zset, start, stop) ==
    SubSeq(zset, 1, start) \o SubSeq(zset, stop + 2, Len(zset))

\* the trim of the handler: over TRIM_ABOVE entries, all but TRIM_TO go
trimmed(zset) ==
    IF Len(zset) > TRIM_ABOVE
    THEN zremrangebyrank(zset, 0, Len(zset) - TRIM_TO - 1)
    ELSE zset

\* redis.lpush and redis.ltrim(key, 0, stop)
lpush(list, x) == <<x>> \o list
ltrim(list, stop) == SubSeq(list, 1, mathMin(Len(list), stop + 1))

\* what the event list gets of an ingested value: nothing without meta, 0 for
\* a no-activity tick, the value otherwise
Metas == {"", "point", "tick"}
valueForEvent(value, meta) == IF meta = "tick" THEN 0 ELSE value

\* POST /api/ingest { secret, chain, market, time, value, meta?, mode? };
\* valid tells whether method, secret and payload pass
ingest(valid, mode, time, value, meta) ==
    /\ ingested' = IF valid /\ mode = ""
                   THEN [n |-> 1 - ingested.n, ok |-> TRUE, mode |-> mode,
                         time |-> time, value |-> value]
                   ELSE [n |-> 1 - ingested.n, ok |-> valid, mode |-> mode,
                         time |-> 0, value |-> 0]
    /\ IF ~valid
       THEN UNCHANGED <<ticks, stage, events, recorded1>>
       ELSE IF mode = "del"
       THEN /\ ticks' = <<>>
            /\ events' = <<>>
            /\ stage' = "stored"
            /\ UNCHANGED recorded1
       ELSE /\ ticks' = trimmed(zadd(ticks, time, value))
            /\ stage' = "stored"
            /\ events' = IF meta = "" THEN events
                         ELSE ltrim(lpush(events, [value |-> valueForEvent(value, meta),
                                                   type |-> meta]),
                                    EVENTS_KEPT - 1)
            /\ recorded1' = (recorded1 \/ meta # "")
    /\ UNCHANGED <<sticky, guard, served>>
    /\ UNCHANGED <<width, points, candles, ref, shown>>
    /\ UNCHANGED <<ledger, latestAnswer, last, keeperVars, log, scanVars, loopVars, siteVars>>
    /\ UNCHANGED <<awayVars, cgVars>>

\* the key that holds back the upstream fallback expires (ex: 900)
expire ==
    /\ guard
    /\ guard' = FALSE
    /\ UNCHANGED <<events, sticky, ingested, served, recorded1>>
    /\ UNCHANGED <<core, awayVars, cgVars>>

\* GET /api/events of the market localaway; limit is the limit of the query,
\* kept tells whether the snapshot can be written, goals is what the
\* live-goals endpoint gives when it is asked
query(limit, kept, goals) ==
    LET out == SubSeq(events, 1, mathMin(Len(events), limit))
        recent == SubSeq(goals, 1, mathMin(Len(goals), limit))
    IN /\ IF out # <<>>
          THEN /\ sticky' = IF kept THEN out ELSE sticky
               /\ served' = [n |-> 1 - served.n, events |-> out]
               /\ UNCHANGED <<events, guard>>
          ELSE IF sticky # <<>>
          THEN /\ served' = [n |-> 1 - served.n, events |-> sticky]
               /\ UNCHANGED <<events, sticky, guard>>
          ELSE IF guard
          THEN /\ served' = [n |-> 1 - served.n, events |-> <<>>]
               /\ UNCHANGED <<events, sticky, guard>>
          ELSE /\ served' = [n |-> 1 - served.n, events |-> recent]
               /\ events' = IF recent = <<>> THEN events ELSE recent
               /\ sticky' = IF recent # <<>> /\ kept THEN recent ELSE sticky
               /\ guard' = (recent # <<>>)
       /\ UNCHANGED <<ingested, recorded1>>
       /\ UNCHANGED <<core, awayVars, cgVars>>

\* ------------------------------------------------------------ lab votes
\* An address of the request body is one of Voters in one of three
\* spellings: all lower case, the checksum spelling of EIP-55, or a mixed
\* spelling whose checksum is wrong.
Spellings == {"lower", "checksum", "mixed"}
Addresses == [of : Voters, as : Spellings]

\* viem getAddress: the checksum spelling of a well-spelled address, and
\* an exception for a mixed spelling that is not its own checksum
getAddress(address) ==
    IF address.as = "mixed" THEN "throws" ELSE [address EXCEPT !.as = "checksum"]

\* String.prototype.toLowerCase
toLowerCase(address) == [address EXCEPT !.as = "lower"]

\* the vote of a request that passed the checks of lines 11-32, as it is
\* stored in the set of voters
voterOf(address) == toLowerCase(getAddress(address))

\* lines 11-32: the request carries a well-formed address and a signature
\* that verifies for it
verified(address, signed) ==
    IF address.as = "mixed" THEN FALSE ELSE signed

\* POST /api/lab-proposals with a valid signature: the proposal is stored
\* with votes: 0 under a new id, whose set of voters does not exist yet
submit ==
    /\ proposal = <<>>
    /\ \A h \in Handlers : handlers[h].pc = "idle"
    /\ proposal' = <<[votes |-> 0]>>
    /\ voters' = {}
    /\ UNCHANGED <<handlers, voted, walkVars, retry>>
    /\ UNCHANGED offSite

\* POST /api/lab-vote served from its first line to its response while no
\* other request is served; ok says whether the redis.set of the new count
\* succeeded
labVote(address, signed, ok) ==
    /\ \A h \in Handlers : handlers[h].pc = "idle"
    /\ LET n == 1 - voted.n
           done(a, status, fresh) ==
               voted' = [n |-> n, address |-> a, status |-> status, fresh |-> fresh]
       IN IF ~verified(address, signed)
          THEN done(<<>>, 401, FALSE) /\ UNCHANGED <<proposal, voters>>
          ELSE IF proposal = <<>>
          THEN done(<<>>, 404, FALSE) /\ UNCHANGED <<proposal, voters>>
          ELSE LET addrLower == voterOf(address)
                   added == addrLower \notin voters
                   votes == proposal[1].votes + 1
               IN /\ voters' = voters \cup {addrLower}
                  /\ proposal' = IF added /\ ok THEN <<[votes |-> votes]>> ELSE proposal
                  /\ done(<<addrLower>>, IF added /\ ~ok THEN 500 ELSE 200, added)
    /\ UNCHANGED <<handlers, walkVars, retry>>
    /\ UNCHANGED offSite

\* The same handler at its awaits, for requests that are served at the same
\* time.  voteRead: lines 11-35, the checks and the redis.get of the record
voteRead(h, address, signed) ==
    /\ handlers[h].pc = "idle"
    /\ verified(address, signed)
    /\ proposal # <<>>
    /\ handlers' = [handlers EXCEPT ![h] = [pc |-> "sadd",
                                             address |-> <<voterOf(address)>>,
                                             raw |-> proposal[1].votes]]
    /\ UNCHANGED <<proposal, voters, voted, walkVars, retry>>
    /\ UNCHANGED offSite

\* lines 38-40: redis.sadd and the test of its answer
voteAdd(h) ==
    /\ handlers[h].pc = "sadd"
    /\ LET addrLower == handlers[h].address[1]
           added == addrLower \notin voters
       IN /\ voters' = voters \cup {addrLower}
          /\ handlers' = [handlers EXCEPT ![h] = IF added THEN [@ EXCEPT !.pc = "set"]
                                                 ELSE Idle]
    /\ UNCHANGED <<proposal, voted, walkVars, retry>>
    /\ UNCHANGED offSite

\* the record with votes: Number(p.votes || 0) + 1, p parsed from raw
written(raw) == <<[votes |-> raw + 1]>>

\* lines 42-50: redis.set of the record read at line 34 with its votes
\* raised by one, and the response
voteWrite(h, ok) ==
    /\ handlers[h].pc = "set"
    /\ proposal' = IF ok THEN written(handlers[h].raw) ELSE proposal
    /\ handlers' = [handlers EXCEPT ![h] = Idle]
    /\ UNCHANGED <<voters, voted, walkVars, retry>>
    /\ UNCHANGED offSite

\* ----------------------------------------------------- random-walk daemon
\* BigInt division: the quotient is truncated towards zero
quotient(a, b) == IF a >= 0 THEN a \div b ELSE -((-a) \div b)

\* the steps Math.floor(Math.random() * (2 * maxBps + 1)) - maxBps can take
Steps == (0 - MAX_BPS)..MAX_BPS

\* the next value without the guard of line 29
nextPrice_unguarded(latest, stepBps) == latest + quotient(latest * stepBps, STEP_DEN)

\* the value the daemon pushes from the latest answer and a step
nextPrice(latest, stepBps) ==
    LET delta == quotient(latest * stepBps, STEP_DEN)
        next == latest + delta
    IN IF next <= 0 THEN 1 ELSE next

\* one loop of the random-walk daemon; ok tells whether pushPrice and
\* tx.wait() return
randomStep(stepBps, ok) ==
    /\ stepBps \in Steps
    /\ nextPrice(random, stepBps) <= MaxRandom
    /\ random' = IF ok THEN nextPrice(random, stepBps) ELSE random
    /\ walked' = [n |-> 1 - walked.n, stepBps |-> stepBps, pushed |-> ok]
    /\ UNCHANGED <<labVars, retry>>
    /\ UNCHANGED offSite

\* ------------------------------------------------------------ getWithRetry
\* What fn() does in one attempt: it returns, or it throws an error; msg
\* is the set of the texts getWithRetry looks for that the message of the
\* error, in lower case, holds.
Needles == {"no backend is currently healthy", "429", "rate"}
Results ==
    {[returns |-> TRUE, msg |-> {}], [returns |-> FALSE, msg |-> {}]}
      \cup {[returns |-> FALSE, msg |-> {n}] : n \in Needles}

\* lower.includes(...) || lower.includes(...) || lower.includes(...)
isHiccup(msg) ==
    \/ "no backend is currently healthy" \in msg
    \/ "429" \in msg
    \/ "rate" \in msg

\* seconds slept after the failed attempt of the given number
backoff(hiccup, k) ==
    IF hiccup THEN mathMin(5 * k, 30) ELSE mathMin(2 * k, 10)

\* getWithRetry(fn, label) is called
getWithRetry ==
    /\ retry.pc \in {"idle", "returned", "thrown"}
    /\ retry' = [pc |-> "try", attempt |-> 0, slept |-> <<>>]
    /\ UNCHANGED <<labVars, walkVars>>
    /\ UNCHANGED offSite

\* one turn of the loop up to its await: fn() returns and so does
\* getWithRetry, or fn() throws and the sleep begins
attempt(outcome) ==
    /\ retry.pc = "try"
    /\ IF outcome.returns
       THEN retry' = [retry EXCEPT !.pc = "returned"]
       ELSE retry' = [pc |-> "sleep", attempt |-> retry.attempt + 1,
                      slept |-> Append(retry.slept,
                                       backoff(isHiccup(outcome.msg), retry.attempt + 1))]
    /\ UNCHANGED <<labVars, walkVars>>
    /\ UNCHANGED offSite

\* attempts that never stop
wakeUp_forever ==
    /\ retry.pc = "sleep"
    /\ retry' = [retry EXCEPT !.pc = "try"]
    /\ UNCHANGED <<labVars, walkVars>>
    /\ UNCHANGED offSite

\* the sleep is over: the error is thrown after the fifth failed attempt,
\* and the loop goes round otherwise
wakeUp ==
    /\ retry.pc = "sleep"
    /\ retry' = [retry EXCEPT !.pc = IF retry.attempt >= MAX_ATTEMPTS THEN "thrown"
                                     ELSE "try"]
    /\ UNCHANGED <<labVars, walkVars>>
    /\ UNCHANGED offSite

\* ------------------------------------------------------ specifications
\* One trader with every argument, funding of the pool, the owner's
\* parameters, liquidation by the trader itself and by a third party.
Next ==
    \/ \E p \in Answers : pushPrice(p)
    \/ \E v \in Values \ {0} : receive(Deployer, v)
    \/ \E s \in {Deployer, "t1"}, c \in ParamChoices : setParams(s, c[1], c[2], c[3])
    \/ \E isLong \in BOOLEAN, l \in Leverages, v \in Values :
          openPosition("t1", isLong, l, v)
    \/ closePosition("t1")
    \/ \E s \in {"t1", "k1"} : liquidate(s, "t1")

Spec == Init /\ [][Next]_vars

\* Two traders side by side, default parameters.
FrameNext ==
    \/ \E p \in Answers : pushPrice(p)
    \/ \E s \in Traders, l \in {0, MAX_LEVERAGE} : openPosition(s, TRUE, l, 10)
    \/ \E s \in Traders : closePosition(s)
    \/ \E s \in Traders, t \in Traders : liquidate(s, t)

FrameSpec == Init /\ [][FrameNext]_vars

\* One trader and two keepers whose transactions interleave with the
\* trader's calls and with price updates.
KeeperNext ==
    \/ \E p \in 0..MaxPrice : pushPrice(p)
    \/ \E isLong \in BOOLEAN, l \in {1, MAX_LEVERAGE} : openPosition("t1", isLong, l, 10)
    \/ closePosition("t1")
    \/ \E k \in Keepers : keeperObserve(k, "t1")
    \/ \E k \in Keepers : keeperLiquidate(k)

KeeperSpec == Init /\ [][KeeperNext]_vars

\* Two traders whose calls are replayed from the events they emit.
EventNext ==
    \/ \E p \in 0..1 : pushPrice(p)
    \/ \E s \in Traders, l \in {1, MAX_LEVERAGE} : openPositionLogged(s, TRUE, l, 10)
    \/ \E s \in Traders : closePositionLogged(s)
    \/ \E s \in Traders, t \in Traders : liquidateLogged(s, t)

EventSpec == Init /\ [][EventNext]_vars

\* The keeper's scan beside a ledger that emits the five events.
ScanNext ==
    \/ \E a \in Traders, ev \in OpenEvents \cup TerminalEvents : ledgerEvent(a, ev)
    \/ scanStart
    \/ scanChunk
    \/ scanFail

ScanSpec == Init /\ [][ScanNext]_vars

\* The keeper's main loop with every answer and every failure of its calls.
LoopNext ==
    \/ \E tx \in inFlight, ok \in BOOLEAN : executeTx(tx, ok)
    \/ \E o \in Orders : loopStart(o)
    \/ \E out \in Outcomes : queryCanLiquidate(out)
    \/ \E out \in Outcomes : queryShouldClose(out)
    \/ \E fn \in {"liquidate", "closeIfTriggered"}, out \in Handovers : send(fn, out)

\* the keeper starts asleep with an empty Set; the oracle holds one answer
LoopInit == Init /\ latestAnswer = 1

LoopSpec == LoopInit /\ [][LoopNext]_vars

\* The keeper with a full Set on a chain without new events: scanNewLogs
\* returns at once, every call answers from the ledger's standing, every
\* transaction is taken by the node (GAS_LIMIT set), the loop keeps
\* running and every transaction in flight is executed.
FairInit ==
    \E st \in [Tracked -> Standing] :
       Constructed(<<"t1", "t2", "t3">>, st) /\ latestAnswer = 1 /\ Stored(<<>>, 1)
          /\ Feeding

wake == loopStart(open)

askCanLiquidate ==
    queryCanLiquidate(IF standing[cur] \in {"liq", "both"} THEN "true" ELSE "false")

askShouldClose ==
    queryShouldClose(IF standing[cur] \in {"stop", "both"} THEN "true" ELSE "false")

handOver == \E fn \in {"liquidate", "closeIfTriggered"} : send(fn, "sent")

keeperStep == wake \/ askCanLiquidate \/ askShouldClose \/ handOver

Txs == [fn : {"liquidate", "closeIfTriggered"}, trader : Tracked]

FairNext ==
    \/ wake
    \/ askCanLiquidate
    \/ askShouldClose
    \/ handOver
    \/ \E tx \in inFlight, ok \in BOOLEAN : executeTx(tx, ok)

\* The candle builder and the chart over every small tick store.
CandleInit ==
    /\ Constructed(<<>>, [a \in Tracked |-> "no"])
    /\ latestAnswer = 1
    /\ \/ \E tk \in StoredTicks, w \in BucketWidths : Stored(tk, w)
       \/ Stored(MinuteTicks, 60)
    /\ Feeding

CandleNext ==
    \/ \E i \in 1..MaxTicks : reorder(i)
    \/ build
    \/ normalize

CandleSpec == CandleInit /\ [][CandleNext]_vars

\* The chart under live answers of the oracle, over every small tick store.
LiveInit ==
    /\ Constructed(<<>>, [a \in Tracked |-> "no"])
    /\ latestAnswer = 1
    /\ \E tk \in StoredTicks, w \in BucketWidths : Len(tk) = 2 /\ Stored(tk, w)
    /\ Feeding

\* the answers the chart reads and their timestamps
LivePrices == {0, 2, MaxValue + 1}
LiveTimes == {1, MaxTime, MaxTime + 2}

LiveNext ==
    \/ build
    \/ normalize
    \/ \E v \in LivePrices, ts \in LiveTimes : livePrice(v, ts)

LiveSpec == LiveInit /\ [][LiveNext]_vars

\* The local/away daemon at its fixed cadence under every other choice of
\* the environment, with its upstream scores.
AwayInit ==
    /\ Constructed(<<>>, [a \in Tracked |-> "no"])
    /\ latestAnswer = 1
    /\ Stored(<<>>, 1)
    /\ \E e \in Envs : e.alwaysPollEveryMinute /\ Started(e)
    /\ Publishing("daemon", 0, 0)
    /\ Listing
    /\ Sited

\* a loop of the daemon, at any minute and with any call of it throwing
poller ==
    \E minute \in Minutes, thrown \in Throws, ingestOk \in BOOLEAN :
       pollCycle(minute, thrown, ingestOk)

\* the daemon while the football fixture is played and the basketball game
\* stands still
GoalsNext ==
    \/ \E side \in {"home", "away"} : goal(side)
    \/ poller

GoalsSpec == AwayInit /\ [][GoalsNext]_vars

\* the daemon while the basketball game is played and the football fixture
\* stands still
PointsNext ==
    \/ \E side \in {"home", "away"} : point(side)
    \/ poller

PointsSpec == AwayInit /\ [][PointsNext]_vars

\* The local/away daemon with dynamic backoff (ALWAYS_POLL_EVERY_MINUTE =
\* false).
BackoffInit ==
    /\ Constructed(<<>>, [a \in Tracked |-> "no"])
    /\ latestAnswer = 1
    /\ Stored(<<>>, 1)
    /\ Started([Defaults EXCEPT !.alwaysPollEveryMinute = FALSE, !.apiKey = TRUE])
    /\ Publishing("daemon", 0, 0)
    /\ Listing
    /\ Sited

BackoffSpec == BackoffInit /\ [][PointsNext]_vars

\* The daemons of the unbounded markets: the local/away daemon started at
\* an index of 1 while the basketball game is played, and the random-walk
\* daemon from a Random oracle that answers 0 or 1000.
PositiveInit ==
    /\ Constructed(<<>>, [a \in Tracked |-> "no"])
    /\ latestAnswer = 1
    /\ Stored(<<>>, 1)
    /\ Resumed([Defaults EXCEPT !.apiKey = TRUE], FLOOR_INDEX)
    /\ Publishing("daemon", 0, 0)
    /\ Listing
    /\ Proposing
    /\ retry = NoRetry
    /\ \E r \in {0, 1000} : Walking(r)

PositiveNext ==
    \/ \E side \in {"home", "away"} : point(side)
    \/ \E minute \in {"other", "basket"}, thrown \in {None, "basket"} :
          pollCycle(minute, thrown, TRUE)
    \/ \E stepBps \in {0 - MAX_BPS, 0, MAX_BPS}, ok \in BOOLEAN :
          randomStep(stepBps, ok)

PositiveSpec == PositiveInit /\ [][PositiveNext]_vars

\* The local/away daemon stopped and started again between its loops.
RestartNext ==
    \/ \E side \in {"home", "away"} : point(side)
    \/ poller
    \/ \E answers \in BOOLEAN : restart(answers)

RestartSpec == AwayInit /\ [][RestartNext]_vars

\* The CoinGecko publishers against one oracle, each guard set or unset.
PublishInit ==
    /\ Constructed(<<>>, [a \in Tracked |-> "no"])
    /\ latestAnswer = 1
    /\ Stored(<<>>, 1)
    /\ Started(Defaults)
    /\ Listing
    /\ Sited
    /\ \E p \in Programs, m \in {0, MIN_CHANGE}, f \in {0, FORCE_MAX_AGE_SEC} :
          Publishing(p, m, f)

PublishNext ==
    \/ elapse
    \/ \E pct \in Pcts, ok \in BOOLEAN : pushGuarded(pct, ok)
    \/ \E pct \in Pcts, ok \in BOOLEAN : pushPlain(pct, ok)
    \/ \E pct \in Pcts, ok \in BOOLEAN : runOnce(pct, ok)

PublishSpec == PublishInit /\ [][PublishNext]_vars

\* The tick series of one market under ingest calls without meta.
TickInit == Init /\ latestAnswer = 1

TickNext ==
    \E valid \in BOOLEAN, mode \in {"", "del"}, time \in 0..MaxStamp,
       value \in 1..MaxMember : ingest(valid, mode, time, value, "")

TickSpec == TickInit /\ [][TickNext]_vars

\* The event list of one market under ingest calls and queries.
Goals == {<<>>, <<[value |-> 0, type |-> "goal"]>>}

ListNext ==
    \/ \E valid \in BOOLEAN, mode \in {"", "del"}, meta \in Metas :
          ingest(valid, mode, 0, 1, meta)
    \/ expire
    \/ \E limit \in 1..EVENTS_KEPT, kept \in BOOLEAN, goals \in Goals :
          query(limit, kept, goals)

ListSpec == TickInit /\ [][ListNext]_vars

\* Two traders on one pool, one without leverage and one at the highest:
\* the profit of the first is paid out of the margin of the second.
PoolNext ==
    \/ \E p \in 1..MaxPrice : pushPrice(p)
    \/ \E s \in Traders, l \in {1, MAX_LEVERAGE} : openPosition(s, TRUE, l, 10)
    \/ \E s \in Traders : closePosition(s)
    \/ \E s \in Traders, t \in Traders : liquidate(s, t)

PoolSpec == LoopInit /\ [][PoolNext]_vars

\* The lab under vote requests that are served at the same time, every
\* call to Redis succeeding.
RaceNext ==
    \/ submit
    \/ \E h \in Handlers, address \in Addresses : voteRead(h, address, TRUE)
    \/ \E h \in Handlers : voteAdd(h)
    \/ \E h \in Handlers : voteWrite(h, TRUE)

RaceSpec == TickInit /\ [][RaceNext]_vars

\* The lab under vote requests that are served one after the other.
VoteNext ==
    \/ submit
    \/ \E address \in Addresses, signed \in BOOLEAN, ok \in BOOLEAN :
          labVote(address, signed, ok)

VoteSpec == TickInit /\ [][VoteNext]_vars

\* getWithRetry around a call that may fail every time.
RetryNext ==
    \/ getWithRetry
    \/ \E outcome \in Results : attempt(outcome)
    \/ wakeUp

\* fn() settles and the timer of sleep fires
RetryFairSpec ==
    /\ TickInit
    /\ [][RetryNext]_vars
    /\ WF_vars(\E outcome \in Results : attempt(outcome))
    /\ WF_vars(wakeUp)

FairSpec ==
    /\ FairInit
    /\ [][FairNext]_vars
    /\ WF_vars(keeperStep)
    /\ \A tx \in Txs : WF_vars(\E ok \in BOOLEAN : executeTx(tx, ok))

\* ================================================================ claims
\* the outcome of a rejected call: no success, no payment, ledger untouched
Rejected == ~last'.ok /\ last'.paid = 0 /\ UNCHANGED ledger

\* C1: an openPosition call by an account whose position is open is
\* rejected with "has pos" and leaves that position (side, leverage, margin,
\* entryPrice, isOpen) as it was, so an account never holds two positions.
C1_OpenWhileOpenRejected ==
    [][(last'.op = "openPosition") =>
         \A s \in Traders, isLong \in BOOLEAN, l \in Leverages, v \in Values :
            (positions[s].isOpen /\ openPosition(s, isLong, l, v))
               => (Rejected /\ positions'[s] = positions[s])]_vars

\* C1 witness: a valid openPosition was just rejected because the sender's
\* position is open
C1_Witness ==
    /\ last.op = "openPosition"
    /\ ~last.ok
    /\ last.err = "has pos"
    /\ positions[last.sender].isOpen

\* C2: openPosition with leverage 0 or above 150 or with zero deposit,
\* closePosition and liquidate on an account without open position, and
\* liquidate of a position canLiquidate does not report as liquidatable are
\* all rejected: nothing is paid, no position record and no balance changes.
C2_RejectedCallsChangeNothing ==
    [][/\ (last'.op = "openPosition") =>
            \A s \in Traders, isLong \in BOOLEAN, l \in Leverages, v \in Values :
               ((l = 0 \/ l > 150 \/ v = 0) /\ openPosition(s, isLong, l, v))
                  => Rejected
       /\ (last'.op = "closePosition") =>
            \A s \in Traders :
               (~positions[s].isOpen /\ closePosition(s)) => Rejected
       /\ (last'.op = "liquidate") =>
            \A s \in Senders, t \in Traders :
               ((~positions[t].isOpen
                    \/ ~(canLiquidate(t).ok /\ canLiquidate(t).val))
                  /\ liquidate(s, t))
                  => Rejected]_vars

\* C2 witness: an openPosition with leverage out of range was just rejected
C2_Witness ==
    /\ last.op = "openPosition"
    /\ ~last.ok
    /\ last.err = "bad lev"

\* ---- the quantities of the ledger's contract, as the specification
\* ---- states them (signed, division truncating toward zero)
TruncDiv(a, b) == IF a >= 0 THEN a \div b ELSE -((-a) \div b)
Notional(pos) == pos.margin * pos.leverage
\* pnl = notional * (exit - entry) / entry, sign-flipped for shorts; entry > 0
Pnl(pos, price) ==
    IF pos.isLong
    THEN TruncDiv(Notional(pos) * (price - pos.entryPrice), pos.entryPrice)
    ELSE TruncDiv(Notional(pos) * (pos.entryPrice - price), pos.entryPrice)
Equity(pos, price) == pos.margin + Pnl(pos, price)
Maintenance(pos) == (Notional(pos) * maintenanceMarginRatioBps) \div BPS
Max(a, b) == IF a >= b THEN a ELSE b
Min(a, b) == IF a <= b THEN a ELSE b

\* C3: for every open position (entered at a positive price) and every
\* non-negative index price _calcPnl returns a pnl of the right sign: for a
\* long, price above entry gives pnl > 0 and price below entry gives pnl < 0;
\* reversed for a short; price equal to entry gives pnl = 0.
C3_PnlSign ==
    \A t \in Traders :
       (positions[t].isOpen /\ latestAnswer >= 0 /\ positions[t].entryPrice > 0) =>
          LET pos == positions[t]
              r == _calcPnl(pos, latestAnswer)
              up == IF pos.isLong THEN latestAnswer > pos.entryPrice
                    ELSE latestAnswer < pos.entryPrice
              down == IF pos.isLong THEN latestAnswer < pos.entryPrice
                      ELSE latestAnswer > pos.entryPrice
          IN /\ r.ok
             /\ up => r.pnl > 0
             /\ down => r.pnl < 0
             /\ (latestAnswer = pos.entryPrice) => r.pnl = 0

\* C4: for every oracle price, canLiquidate(a) returns true exactly when a
\* has an open position with equity (margin + unrealized pnl) at or below
\* maintenance (notional * maintenanceMarginRatioBps / 10000), and false
\* otherwise.
C4_CanLiquidateIffEquityAtMostMaintenance ==
    \A t \in Traders :
       LET pos == positions[t] IN
       /\ ~pos.isOpen => (canLiquidate(t).ok /\ ~canLiquidate(t).val)
       /\ (pos.isOpen /\ latestAnswer >= 0 /\ pos.entryPrice > 0) =>
             /\ canLiquidate(t).ok
             /\ canLiquidate(t).val
                  = (Equity(pos, latestAnswer) <= Maintenance(pos))

\* C5: a position at a loss can always be exited: closePosition by its owner
\* and liquidate by anyone (once equity <= maintenance) are never reverted
\* because of the negative pnl.
C5_UnderwaterCanExit ==
    [][(last'.op \in {"closePosition", "liquidate"}) =>
         \A t \in Traders :
            LET pos == positions[t] IN
            (/\ pos.isOpen
             /\ latestAnswer >= 0
             /\ pos.entryPrice > 0
             /\ Pnl(pos, latestAnswer) < 0)
            => /\ closePosition(t) => last'.err # "panic"
               /\ \A s \in Senders :
                    (Equity(pos, latestAnswer) <= Maintenance(pos)
                       /\ liquidate(s, t)) => last'.err # "panic"]_vars

\* C6: a successful openPosition(isLong, leverage) with deposit d stores
\* margin = d - floor(d * leverage * takerFeeBps / 10000), the leverage and
\* side given, and entryPrice = the oracle price of that call.
C6_OpenStoresMarginNetOfFee ==
    [][(last'.op = "openPosition" /\ last'.ok) =>
         \A s \in Traders, isLong \in BOOLEAN, l \in Leverages, v \in Values :
            openPosition(s, isLong, l, v) =>
               /\ positions'[s].isOpen
               /\ positions'[s].isLong = isLong
               /\ positions'[s].leverage = l
               /\ positions'[s].margin = v - ((v * l * takerFeeBps) \div 10000)
               /\ positions'[s].entryPrice = latestAnswer]_vars

\* C6 witness: an open went through whose fee truncated to a non-zero
\* amount (deposit 10, leverage 150, 10 bps: 1.5 -> 1)
C6_Witness ==
    /\ last.op = "openPosition"
    /\ last.ok
    /\ positions[last.sender].isOpen
    /\ positions[last.sender].leverage = 150
    /\ positions[last.sender].margin = 9

\* C7: a successful closePosition pays the caller exactly
\* max(0, margin + pnl - closeFee), with notional = margin * leverage, pnl the
\* linear index pnl and closeFee = notional * takerFeeBps / 10000, and sets
\* isOpen to false.  (Stated where the pnl quotient is defined, entry > 0.)
C7_ClosePaysSettlement ==
    [][(last'.op = "closePosition" /\ last'.ok) =>
         \A s \in Traders :
            (positions[s].entryPrice > 0 /\ closePosition(s)) =>
               LET pos == positions[s]
                   fee == (Notional(pos) * takerFeeBps) \div 10000
               IN /\ last'.sender = s
                  /\ last'.paid = Max(0, pos.margin + Pnl(pos, latestAnswer) - fee)
                  /\ balance' = balance - last'.paid
                  /\ ~positions'[s].isOpen]_vars

\* C7 witness: a close at a profit was paid (more than the margin came back)
C7_Witness ==
    /\ last.op = "closePosition"
    /\ last.ok
    /\ positions[last.sender].entryPrice > 0
    /\ last.paid > positions[last.sender].margin

\* C8: a successful liquidate(account) closes the position and sends the
\* caller exactly min(max(equity, 0), notional * liquidationFeeBps / 10000);
\* nothing else leaves the contract (nothing goes to the liquidated trader).
C8_LiquidateReward ==
    [][(last'.op = "liquidate" /\ last'.ok) =>
         \A s \in Senders, t \in Traders :
            (positions[t].entryPrice > 0 /\ liquidate(s, t)) =>
               LET pos == positions[t]
                   liqFee == (Notional(pos) * liquidationFeeBps) \div 10000
               IN /\ last'.sender = s
                  /\ last'.paid = Min(Max(Equity(pos, latestAnswer), 0), liqFee)
                  /\ balance' = balance - last'.paid
                  /\ positions'[t] = [pos EXCEPT !.isOpen = FALSE]]_vars

\* C8 witness: a third party liquidated a position and got a reward that
\* the fee cap cut below the equity
C8_Witness ==
    /\ last.op = "liquidate"
    /\ last.ok
    /\ last.sender # last.trader
    /\ positions[last.trader].entryPrice > 0
    /\ last.paid > 0
    /\ last.paid < positions[last.trader].margin

\* C9: a ledger operation by or on account A (open, close, liquidate),
\* successful or not, leaves the position record of every other account
\* unchanged.
C9_OtherAccountsUntouched ==
    [][(last'.op \in {"openPosition", "closePosition", "liquidate"}) =>
         \A a \in Traders :
            (\/ \E isLong \in BOOLEAN, l \in Leverages, v \in Values :
                   openPosition(a, isLong, l, v)
             \/ closePosition(a)
             \/ \E s \in Senders : liquidate(s, a))
            => \A b \in Traders \ {a} : positions'[b] = positions[b]]_vars

\* C9 witness: one trader just liquidated the other while holding an open
\* position of its own
C9_Witness ==
    /\ last.op = "liquidate"
    /\ last.ok
    /\ last.sender \in Traders
    /\ last.sender # last.trader
    /\ positions[last.sender].isOpen
    /\ ~positions[last.trader].isOpen

\* C10 (as stated): when two keepers both observed canLiquidate(a) = true
\* and the liquidate(a) of both has been executed, exactly one of the two
\* calls succeeded.
C10_ExactlyOneSucceeds ==
    (\A k \in Keepers : submitted[k] # None)
       => Cardinality({k \in Keepers : submitted[k] = "ok"}) = 1

\* C10 (amended): a keeper's liquidate(a) executed while a's position is not
\* open (another liquidate(a) succeeded, or the owner closed) is rejected with
\* "no pos", pays nothing and changes no state; a keeper's liquidate(a) that
\* succeeds pays that keeper and leaves a's position closed, so the next call
\* on the same position is such a rejected call.
C10_SecondLiquidationRejected ==
    [][(last'.op = "liquidate") =>
         \A k \in Keepers :
            (pending[k] # None /\ keeperLiquidate(k)) =>
               /\ (~positions[pending[k]].isOpen)
                     => (Rejected /\ last'.err = "no pos")
               /\ last'.ok
                     => /\ last'.sender = k
                        /\ balance' = balance - last'.paid
                        /\ ~positions'[pending[k]].isOpen]_vars

\* C10 witness: both keepers observed, one liquidate succeeded and the
\* other keeper's liquidate was then rejected with "no pos"
C10_Witness ==
    \E k \in Keepers, j \in Keepers :
       /\ k # j
       /\ submitted[j] = "ok"
       /\ submitted[k] = "rejected"
       /\ last.op = "liquidate"
       /\ last.sender = k
       /\ last.err = "no pos"

\* the events of one account, in log order
EventsOf(a) == SelectSeq(log, LAMBDA e : e.trader = a)

\* replay of a log: an opening adds the account, a terminal event removes it
RECURSIVE Replay(_)
Replay(l) ==
    IF l = <<>> THEN {}
    ELSE LET e == l[Len(l)]
             before == Replay(SubSeq(l, 1, Len(l) - 1))
         IN IF e.ev = "PositionOpened" THEN before \cup {e.trader}
            ELSE before \ {e.trader}

\* C11: in the event log every account's events alternate: an opening,
\* then exactly one terminal event (PositionClosed or Liquidated), then the
\* next opening; replaying the log gives exactly the accounts whose stored
\* position has isOpen = true.
C11_EventsAlternate ==
    /\ \A a \in Traders :
          \A i \in 1..Len(EventsOf(a)) :
             IF i % 2 = 1
             THEN EventsOf(a)[i].ev = "PositionOpened"
             ELSE EventsOf(a)[i].ev \in {"PositionClosed", "Liquidated"}
    /\ Replay(log) = {a \in Traders : positions[a].isOpen}

\* C11 witness: one account opened, ended, and opened again, and both kinds
\* of terminal event are in the log
C11_Witness ==
    /\ \E a \in Traders : Len(EventsOf(a)) >= 3
    /\ \E i \in 1..Len(log) : log[i].ev = "PositionClosed"
    /\ \E i \in 1..Len(log) : log[i].ev = "Liquidated"

\* whether the events of l leave account a with an open position
RECURSIVE isOpenAfter(_, _)
isOpenAfter(l, a) ==
    IF l = <<>> THEN FALSE
    ELSE IF l[Len(l)].trader = a THEN l[Len(l)].ev \in OpenEvents
    ELSE isOpenAfter(SubSeq(l, 1, Len(l) - 1), a)

\* the accounts whose position is open as of block b
OpenAsOf(b) == {a \in Traders : isOpenAfter(SubSeq(log, 1, b), a)}

\* C12: when scanNewLogs completes through block B, every account whose
\* position is open as of block B is in the keeper's open set.
C12_OpenAccountsTracked ==
    [][(lastScan' # lastScan) => (OpenAsOf(lastScan') \subseteq Members(open'))]_vars

\* C13: when scanNewLogs completes through block B, no account whose most
\* recent event up to B is PositionClosed, Liquidated or StopClosed is in
\* the keeper's open set.
C13_ClosedAccountsDropped ==
    [][(lastScan' # lastScan) => (Members(open') \subseteq OpenAsOf(lastScan'))]_vars

\* the transactions handed over in the current iteration, in order
Issued == SelectSeq(calls, LAMBDA c : c.out = "sent")

\* C14: in every iteration of the keeper loop at most MAX_TX_PER_LOOP
\* transactions are handed over, and at most one per tracked account.
C14_BoundedWorkPerLoop ==
    /\ Len(Issued) <= MAX_TX_PER_LOOP
    /\ sent = Len(Issued)
    /\ \A i, j \in 1..Len(Issued) : Issued[i].trader = Issued[j].trader => i = j

\* C14 witness: the cap stopped an iteration before its last account, after
\* transactions for two different accounts
C14_Witness ==
    /\ awaiting = "sleep"
    /\ Len(Issued) = MAX_TX_PER_LOOP
    /\ idx <= Len(traders)
    /\ Issued[1].trader # Issued[2].trader

\* C16: when canLiquidate, shouldClose or the handing over of a transaction
\* throws for an account, the keeper keeps the account in its open set, does
\* not count it against the cap, and goes on with the next account of the
\* same iteration.
C16_ThrowSkipsAccountOnly ==
    [][(Len(calls') = Len(calls) + 1 /\ calls'[Len(calls')].out = "threw")
         => /\ open' = open
            /\ calls'[Len(calls')].trader \in Members(open')
            /\ sent' = sent
            /\ traders' = traders
            /\ idx' = idx + 1
            /\ awaiting' = IF idx + 1 <= Len(traders)
                           THEN "canLiquidate" ELSE "sleep"]_vars

\* C16 witness: each of the three kinds of call threw in one iteration,
\* and after a throw the next account was asked
C16_Witness ==
    /\ \E i \in 1..Len(calls) : calls[i].fn = "canLiquidate" /\ calls[i].out = "threw"
    /\ \E i \in 1..Len(calls) : calls[i].fn = "shouldClose" /\ calls[i].out = "threw"
    /\ \E i \in 1..Len(calls) : calls[i].fn = "liquidate" /\ calls[i].out = "threw"
    /\ \E i \in 1..(Len(calls) - 1) :
          calls[i].out = "threw" /\ calls[i + 1].trader # calls[i].trader
    /\ sent = 0

\* the calls of the current iteration about one account, in order
CallsOf(a) == SelectSeq(calls, LAMBDA c : c.trader = a)

\* C17: for each tracked account the keeper asks canLiquidate first; on
\* true it hands over liquidate and nothing else for that account in that
\* iteration; only on false it asks shouldClose, and hands over
\* closeIfTriggered exactly when shouldClose answered true.
C17_LiquidationFirst ==
    /\ \A a \in Tracked :
          LET c == CallsOf(a) IN
          /\ Len(c) <= 3
          /\ Len(c) >= 1 => c[1].fn = "canLiquidate"
          /\ Len(c) >= 2 =>
                \/ c[1].out = "true" /\ c[2].fn = "liquidate" /\ Len(c) = 2
                \/ c[1].out = "false" /\ c[2].fn = "shouldClose"
          /\ Len(c) = 3 => c[2].out = "true" /\ c[3].fn = "closeIfTriggered"
    /\ calls # <<>> =>
          LET c == calls[Len(calls)] IN
          /\ (c.fn = "canLiquidate" /\ c.out = "true") => awaiting = "liquidate"
          /\ (c.fn = "canLiquidate" /\ c.out = "false") => awaiting = "shouldClose"
          /\ (c.fn = "shouldClose" /\ c.out = "true") => awaiting = "closeIfTriggered"
          /\ (c.fn = "shouldClose" /\ c.out = "false") =>
                awaiting \in {"canLiquidate", "sleep"}

\* C17 witness: in one iteration one account was liquidated after
\* canLiquidate answered true and another was closed by its stop after
\* canLiquidate answered false and shouldClose answered true
C17_Witness ==
    \E a, b \in Tracked :
       /\ Len(CallsOf(a)) = 2
       /\ CallsOf(a)[1].out = "true"
       /\ CallsOf(a)[2].out = "sent"
       /\ Len(CallsOf(b)) = 3
       /\ CallsOf(b)[1].out = "false"
       /\ CallsOf(b)[3].fn = "closeIfTriggered"
       /\ CallsOf(b)[3].out = "sent"

\* account a is tracked and the ledger would liquidate it or close it by
\* its stop
Eligible(a) == a \in Members(open) /\ standing[a] # "no"

\* the keeper has just handed over a transaction for account a
IssuedNow(a) ==
    /\ calls # <<>>
    /\ calls[Len(calls)].trader = a
    /\ calls[Len(calls)].out = "sent"

WellFormed(c) ==
    c.low <= c.open /\ c.open <= c.high /\ c.low <= c.close /\ c.close <= c.high

InBucket(b) == {i \in 1..Len(points) : bucketOf(points[i].time, width) = b}

\* C19: aggregate returns one candle per bucket that holds a tick, in
\* increasing bucket order; its open is the value of the bucket's first
\* tick, its close that of the last, its high the maximum and its low the
\* minimum of the bucket's values; no ticks give no candles.
C19_OneCandlePerBucket ==
    stage # "stored" =>
       /\ points = <<>> => candles = <<>>
       /\ {candles[k].time : k \in 1..Len(candles)}
             = {bucketOf(points[i].time, width) : i \in 1..Len(points)}
       /\ \A k \in 1..(Len(candles) - 1) : candles[k].time < candles[k + 1].time
       /\ \A k \in 1..Len(candles) :
             LET in == InBucket(candles[k].time)
                 first == CHOOSE i \in in : \A j \in in : i <= j
                 final == CHOOSE i \in in : \A j \in in : j <= i
             IN /\ candles[k].open = points[first].value
                /\ candles[k].close = points[final].value
                /\ \A j \in in : points[j].value <= candles[k].high
                /\ \A j \in in : candles[k].low <= points[j].value
                /\ \E j \in in : points[j].value = candles[k].high
                /\ \E j \in in : points[j].value = candles[k].low

\* C19 witness: three ticks gave two candles, one of them from two ticks
\* with different values
C19_Witness ==
    /\ stage = "built"
    /\ Len(points) = 3
    /\ Len(candles) = 2
    /\ \E k \in 1..2 : candles[k].open # candles[k].close

\* C20: every order in which the same ticks reach the candle builder gives
\* the same candles, ticks that share a timestamp included.
C20_OrderIndependent == stage # "stored" => candles = ref.candles

\* C21: the ticks (t=0, v=100), (t=30, v=110), (t=61, v=90) with 60-second
\* buckets give exactly two candles, the first bucket 0 with open 100,
\* high 110, low 100, close 110; after continuity normalization the second
\* candle (bucket 60) has open 110, high 110, low 90, close 90.
C21_MinuteScenario ==
    (width = 60 /\ stage # "stored"
        /\ {ticks[i] : i \in 1..Len(ticks)} = {MinuteTicks[i] : i \in 1..3}) =>
       /\ Len(candles) = 2
       /\ candles[1] = [time |-> 0, open |-> 100, high |-> 110,
                        low |-> 100, close |-> 110]
       /\ candles[2].time = 60
       /\ stage = "shown" =>
             /\ Len(shown) = 2
             /\ shown[1] = candles[1]
             /\ shown[2] = [time |-> 60, open |-> 110, high |-> 110,
                            low |-> 90, close |-> 90]

\* C21 witness: the three ticks were built into candles and the chart has
\* normalized them; before that the second candle opened at 90
C21_Witness ==
    /\ width = 60
    /\ stage = "shown"
    /\ points = MinuteTicks
    /\ candles[2].open = 90
    /\ shown[2].open = 110

\* C22: the local/away aggregator never double-counts: over any sequence of
\* polls, polls of an unchanged score and polls whose publish fails after the
\* delta was computed included, the increments applied to the index for a
\* game never exceed the increments of its score.
C22_NoDoubleCount ==
    /\ applied.football <= fixture.home + fixture.away
    /\ applied.basket <= game.home + game.away

\* C23: for football, when a successful poll has seen fixture F at (h, a) and
\* a later successful poll sees it at h' > h or a' > a, the later poll moves
\* the index by the positive difference (h' - h goals up, a' - a goals down)
\* and publishes the new value; the cursor of every observed fixture is kept.
C23_FootballDeltaApplied ==
    [][(poll'.n # poll.n /\ poll'.thrown = None) =>
          /\ lastFootball' = <<fixture>>
          /\ (watched # <<>> /\ (fixture.home > watched[1].home
                                   \/ fixture.away > watched[1].away)) =>
                LET up == fixture.home - watched[1].home
                    down == fixture.away - watched[1].away
                    index == moved(currentIndex, up - down, FOOTBALL_DEN)
                IN /\ poll'.pushed # <<>>
                   /\ poll'.pushed[1] = toScaled(index)
                   /\ poll'.minute = "other" => currentIndex' = index]_vars

\* C24: in the additive index market whose index starts at 10000, after the
\* aggregator has processed three favorable events (+1 each) and one
\* unfavorable event (-1), the published value is 10003.
C24_ThreeUpOneDown ==
    (/\ origin = <<[home |-> 0, away |-> 0]>>
     /\ watched = <<[home |-> 3, away |-> 1]>>
     /\ game = [home |-> 0, away |-> 0]
     /\ poll.thrown = None
     /\ poll.pushed # <<>>) =>
       localAway = toScaled(START_INDEX + 300)

\* the football score is the one the previous poll saw
SameScore == watched = <<>> \/ watched[1] = fixture

C27_BackoffDoublesAndResets ==
    [][(poll'.n # poll.n /\ ~env.alwaysPollEveryMinute) =>
          /\ currentInterval' <= MAX_INTERVAL_MS
          /\ poll'.thrown \in {"fetch", "football", "tick"} =>
                currentInterval' = mathMin(2 * currentInterval, MAX_INTERVAL_MS)
          /\ poll'.thrown = None => currentInterval' = INTERVAL_MS]_vars

\* the oracle's last update is at least FORCE_MAX_AGE_SEC old
Stale == cgEnv.forceMaxAgeSec > 0 /\ now - feed.timestamp >= cgEnv.forceMaxAgeSec

\* C25: a fetched candidate is pushed on-chain exactly when it is at least
\* MIN_CHANGE away from the last published value or the oracle's last update
\* is at least FORCE_MAX_AGE_SEC old; a discarded candidate never becomes the
\* baseline of the comparison.
C25_PublishGuard ==
    [][(run'.n # run.n /\ ~run'.thrown /\ feed.timestamp # 0) =>
          /\ run'.pushed <=>
                \/ mathAbs(run'.pct - feed.answer) >= cgEnv.minChange
                \/ Stale
          /\ ~run'.pushed => feed' = feed /\ lastV' = lastV]_vars

\* the ticks of a series
TicksOf(zset) == {zset[i] : i \in 1..Len(zset)}

\* C28: the tick store is append-only: a successful ingestion of (time,
\* value) adds that tick and leaves every tick stored before it in place with
\* its timestamp, except for the oldest-first trimming of a series over its
\* size bound; a value equal to an earlier tick's value, ingested at a later
\* time, does not remove or move the earlier tick.
C28_AppendOnly ==
    [][(ingested'.n # ingested.n /\ ingested'.ok /\ ingested'.mode = "") =>
          LET removed == TicksOf(ticks) \ TicksOf(ticks')
          IN /\ [time |-> ingested'.time, value |-> ingested'.value]
                   \in TicksOf(ticks') \cup removed
                \/ Len(ticks) + 1 > TRIM_ABOVE
             /\ removed # {} =>
                   /\ Len(ticks) + 1 > TRIM_ABOVE
                   /\ \A r \in removed, k \in TicksOf(ticks') : r.time <= k.time]_vars

\* C29: after any sequence of ingest calls the tick series holds at most
\* TRIM_ABOVE (11000) ticks, and a trim removes only the ticks of lowest
\* timestamp and leaves exactly the TRIM_TO (10000) newest.
C29_TrimmedToNewest ==
    [][(ingested'.n # ingested.n) =>
          /\ Len(ticks') <= TRIM_ABOVE
          /\ (ingested'.ok /\ ingested'.mode = "" /\ Len(ticks') < Len(ticks)) =>
                LET all == TicksOf(ticks) \cup
                              {[time |-> ingested'.time, value |-> ingested'.value]}
                    gone == all \ TicksOf(ticks')
                IN /\ Len(ticks') = TRIM_TO
                   /\ TicksOf(ticks') \subseteq all
                   /\ \A r \in gone, k \in TicksOf(ticks') : r.time <= k.time]_vars

\* C29 witness: an ingest found the series over its bound and cut it to its
\* newest ticks
C29_Witness ==
    /\ ingested.ok
    /\ ingested.mode = ""
    /\ Len(ticks) = TRIM_TO
    /\ \A i \in 1..Len(ticks) : ticks[i].time > 0
    /\ ticks[1].time < ticks[2].time

\* C30: once an event has been recorded for the market through ingestion,
\* every later query of its recent events returns a list that is not empty,
\* whatever ingest calls, deletions (mode = 'del') and queries went between.
C30_NeverEmptyAgain ==
    [][(served'.n # served.n /\ recorded1) => served'.events # <<>>]_vars

\* C31: a request that passed the checks and found the proposal raises the
\* count by one when its address, compared in lower case, had not voted,
\* and leaves the count as it was when the address had voted before.
C31_OneVotePerAddress ==
    [][voted'.n # voted.n /\ voted'.address # <<>>
         => proposal'[1].votes =
              proposal[1].votes + (IF voted'.address[1] \in voters THEN 0 ELSE 1)]_vars

\* C32: every value the local/away daemon pushes, and its index after
\* every loop, is at least the floor of 1; every value the random-walk
\* daemon pushes is above zero, and it is 1 when the latest answer plus
\* its step is zero or less.
C32_Positive ==
    [][/\ poll'.n # poll.n
          => /\ currentIndex' >= FLOOR_INDEX
             /\ \A i \in 1..Len(poll'.pushed) : poll'.pushed[i] >= FLOOR_INDEX
       /\ walked'.n # walked.n /\ walked'.pushed
          => /\ random' > 0
             /\ random + quotient(random * walked'.stepBps, STEP_DEN) <= 0
                  => random' = 1]_vars

\* the index was held at the floor by a point of the away side, and the
\* random-walk daemon pushed 1 over an answer of 0
C32_Witness ==
    /\ poll.pushed = <<FLOOR_INDEX>>
    /\ applied.basket > 0
    /\ game.away > game.home
    /\ walked.pushed
    /\ random = 1

\* C33: lastScan never decreases; it moves only to the toBlock of a scan
\* whose chunks have read every block from lastScan + 1 to toBlock; a scan
\* that fails leaves it, and every scan starts at lastScan + 1.
C33_ScanCursor ==
    [][/\ lastScan' >= lastScan
       /\ lastScan' # lastScan
          => lastScan' = scanTo /\ scanned'.blocks = (lastScan + 1)..lastScan'
       /\ scanTo # 0 /\ scanTo' = 0 /\ scanned'.failed => lastScan' = lastScan
       /\ scanTo = 0 /\ scanTo' # 0 => scanFrom' = lastScan + 1]_vars

\* a scan of more than one chunk completed after an earlier scan of the
\* same range had failed
C33_Witness ==
    /\ scanTo = 0
    /\ scanned.again
    /\ lastScan > SCAN_CHUNK
    /\ scanned.blocks = 1..lastScan

\* the sleeps of a call follow its failed attempts, at most five of them,
\* the k-th of 5k or of 2k seconds and no more than 30 or 10
RetrySleeps ==
    /\ retry.attempt = Len(retry.slept)
    /\ retry.attempt <= 5
    /\ \A k \in 1..Len(retry.slept) :
          \/ retry.slept[k] = 5 * k /\ retry.slept[k] <= 30
          \/ retry.slept[k] = 2 * k /\ retry.slept[k] <= 10
    /\ retry.pc = "thrown" => retry.attempt = 5
    /\ retry.pc = "try" => retry.attempt < 5
    /\ retry.pc = "sleep" => retry.attempt >= 1

\* C34: a call of getWithRetry ends, by returning when an attempt succeeds
\* or by throwing after the fifth failed attempt, and the sleep after
\* failed attempt k is min(5k, 30) or min(2k, 10) seconds.
C34_RetryTerminates ==
    /\ []RetrySleeps
    /\ [][retry'.pc = "returned" => retry.pc = "try"]_vars
    /\ (retry.pc \in {"try", "sleep"}) ~> (retry.pc \in {"returned", "thrown"})

\* the call threw after five failed attempts of both kinds
C34_Witness ==
    /\ retry.pc = "thrown"
    /\ retry.slept = <<5, 4, 15, 8, 25>>

\* C35: a closePosition whose settlement is more than the contract holds is
\* rejected with the position and the balance as they were and nothing
\* paid, and so is a liquidate whose reward is more than the contract
\* holds.
C35_FailedTransferReverts ==
    [][/\ (last'.op = "closePosition") =>
            \A s \in Traders :
               (/\ positions[s].isOpen
                /\ positions[s].entryPrice > 0
                /\ LET pos == positions[s]
                       fee == (Notional(pos) * takerFeeBps) \div 10000
                   IN Max(0, pos.margin + Pnl(pos, latestAnswer) - fee) > balance
                /\ closePosition(s))
                  => Rejected /\ positions'[s].isOpen
       /\ (last'.op = "liquidate") =>
            \A s \in Senders, t \in Traders :
               (/\ positions[t].isOpen
                /\ positions[t].entryPrice > 0
                /\ LET pos == positions[t]
                       equity == pos.margin + Pnl(pos, latestAnswer)
                       liqFee == (Notional(pos) * liquidationFeeBps) \div 10000
                   IN Min(Max(equity, 0), liqFee) > balance
                /\ liquidate(s, t))
                  => Rejected /\ positions'[t].isOpen]_vars

\* a liquidation was rejected because the reward could not be paid, and
\* the position is still open
C35_Witness ==
    /\ last.op = "liquidate"
    /\ last.err = "liq fee fail"
    /\ positions[last.trader].isOpen
    /\ canLiquidate(last.trader).val

\* C36: between two loops of the local/away daemon its index is the value
\* it last pushed to the oracle, and the index it started from while it has
\* pushed none.
C36_IndexIsPublished ==
    currentIndex = IF localAway = 0 THEN START_INDEX ELSE localAway

\* C37: when the daemon is started while the oracle holds an answer above
\* zero, and reads it, its index is that answer, and the no-activity tick
\* of its first loop pushes that answer again.
C37_RestartKeepsIndex ==
    [][/\ poll'.n # poll.n /\ poll'.minute = None /\ poll'.thrown = None
            /\ localAway > 0
          => currentIndex' = localAway
       /\ poll.minute = None /\ poll.thrown = None /\ localAway > 0
            /\ poll'.n # poll.n /\ poll'.minute = "other" /\ poll'.pushed # <<>>
          => poll'.pushed = <<localAway>>]_vars

\* every candle after the first opens within the tolerance of the close
\* before it, every candle is well formed, and bucket starts increase
ValidSeries(cs) ==
    /\ \A i \in 2..Len(cs) : mathAbs(cs[i].open - cs[i - 1].close) <= EPS
    /\ \A i \in 1..Len(cs) : WellFormed(cs[i])
    /\ \A i \in 2..Len(cs) : cs[i - 1].time < cs[i].time

\* every candle after the first opens at the close before it
ExactSeries(cs) == \A i \in 2..Len(cs) : cs[i].open = cs[i - 1].close

C39_NoLostVote ==
    (proposal # <<>> /\ \A h \in Handlers : handlers[h].pc = "idle")
       => proposal[1].votes = Cardinality(voters)

====
